---- MODULE Spec2Model ----
(***************************************************************************)
(* Solver / calibration feedback loop of the loudspeaker-enclosure         *)
(* toolkit: measurement traces, the comparator, the Bayesian calibration   *)
(* engine and the projection of its posteriors onto solver inputs.         *)
(*                                                                         *)
(* Numbers.  A Python float is modelled as an exact rational <<n, d>> in   *)
(* lowest terms with d > 0; NaN is <<0, 0>>, +inf is <<1, 0>> and -inf is  *)
(* <<-1, 0>>.  None is the empty tuple <<>>.  An Optional[list] is <<>>    *)
(* (None) or the one-element tuple <<list>>, so that an empty list and     *)
(* None stay different values.  A complex number is <<re, im>>.            *)
(***************************************************************************)
EXTENDS Integers, Sequences, FiniteSets, TLC

VARIABLES trace, call, out

vars == <<trace, call, out>>

(***************************************************************************)
(* Bounds of the model.                                                    *)
(***************************************************************************)
MaxLen == 3

FreqValues == {20, 50, 130}

(***************************************************************************)
(* Exact rational arithmetic with the IEEE special values.                 *)
(***************************************************************************)
None == <<>>
NaN == <<0, 0>>
PosInf == <<1, 0>>
NegInf == <<-1, 0>>

Abs(i) == IF i < 0 THEN -i ELSE i

Sign(i) == IF i < 0 THEN -1 ELSE IF i > 0 THEN 1 ELSE 0

RECURSIVE Gcd(_, _)
Gcd(a, b) == IF b = 0 THEN a ELSE Gcd(b, a % b)

\* the rational n/d in lowest terms (d # 0)
Q(n, d) ==
    LET g == Gcd(Abs(n), Abs(d))
        s == IF d < 0 THEN -1 ELSE 1
    IN  <<(s * n) \div g, (s * d) \div g>>

R(i) == <<i, 1>>

IsNone(x) == x = None
IsNaN(x) == x = NaN
IsInf(x) == x[2] = 0 /\ x[1] # 0
IsFinite(x) == x[2] # 0

FNeg(a) == IF IsNaN(a) THEN NaN ELSE <<-a[1], a[2]>>

FAbs(a) == IF IsNaN(a) THEN NaN ELSE <<Abs(a[1]), a[2]>>

FAdd(a, b) ==
    IF IsNaN(a) \/ IsNaN(b) THEN NaN
    ELSE IF IsInf(a) /\ IsInf(b) THEN (IF a = b THEN a ELSE NaN)
    ELSE IF IsInf(a) THEN a
    ELSE IF IsInf(b) THEN b
    ELSE LET g == Gcd(a[2], b[2])
         IN  Q(a[1] * (b[2] \div g) + b[1] * (a[2] \div g), (a[2] \div g) * b[2])

FSub(a, b) == FAdd(a, FNeg(b))

FMul(a, b) ==
    IF IsNaN(a) \/ IsNaN(b) THEN NaN
    ELSE IF IsInf(a) \/ IsInf(b)
         THEN (IF a[1] = 0 \/ b[1] = 0 THEN NaN
               ELSE <<Sign(a[1]) * Sign(b[1]), 0>>)
    ELSE Q(a[1] * b[1], a[2] * b[2])

\* a / b for a finite non-zero divisor (Python raises on a zero divisor)
FDiv(a, b) ==
    IF IsNaN(a) \/ IsNaN(b) THEN NaN
    ELSE IF IsInf(b) THEN (IF IsInf(a) THEN NaN ELSE R(0))
    ELSE IF IsInf(a) THEN <<Sign(a[1]) * Sign(b[1]), 0>>
    ELSE Q(a[1] * b[2], a[2] * b[1])

\* a < b; every comparison with NaN is false
FLt(a, b) ==
    IF IsNaN(a) \/ IsNaN(b) THEN FALSE
    ELSE IF IsInf(a) \/ IsInf(b)
         THEN (IF a = b THEN FALSE
               ELSE IF a = NegInf \/ b = PosInf THEN TRUE
               ELSE FALSE)
    ELSE LET g == Gcd(a[2], b[2])
         IN  a[1] * (b[2] \div g) < b[1] * (a[2] \div g)

FGt(a, b) == FLt(b, a)

FLe(a, b) == (~IsNaN(a)) /\ (~IsNaN(b)) /\ (~FLt(b, a))

FGe(a, b) == FLe(b, a)

RECURSIVE SumSeq(_)
SumSeq(s) == IF s = <<>> THEN R(0) ELSE FAdd(Head(s), SumSeq(Tail(s)))

\* a variant of the filter that keeps every sample and reads a NaN as zero
DropNaN_as_zero(s) == [i \in 1..Len(s) |-> IF IsNaN(s[i]) THEN R(0) ELSE s[i]]

\* [v for v in values if keep(v)]
RECURSIVE DropNaN(_)
DropNaN(s) ==
    IF s = <<>> THEN <<>>
    ELSE IF IsNaN(Head(s)) THEN DropNaN(Tail(s))
    ELSE <<Head(s)>> \o DropNaN(Tail(s))

Magnitudes(s) == [i \in 1..Len(s) |-> FAbs(s[i])]

(***************************************************************************)
(* Optional series.                                                        *)
(***************************************************************************)
Some(series) == <<series>>

Val(opt) == opt[1]

(***************************************************************************)
(* MeasurementTrace and its transformations.                               *)
(***************************************************************************)
MeasurementTrace(freq, spl, phase, imp, thd) ==
    [frequency_hz |-> freq, spl_db |-> spl, phase_deg |-> phase,
     impedance_ohm |-> imp, thd_percent |-> thd]

\* sorted(range(n), key=frequency.__getitem__): the stable ascending order
SortOrder(freq) ==
    LET n == Len(freq)
        Rank(i) == Cardinality({j \in 1..n :
                        freq[j] < freq[i] \/ (freq[j] = freq[i] /\ j < i)}) + 1
    IN  [k \in 1..n |-> CHOOSE i \in 1..n : Rank(i) = k]

\* bisect_left on an ascending list: the number of entries below the target
bisect_left(freq, target) ==
    Cardinality({i \in 1..Len(freq) : freq[i] < target})

\* y0 + (y1 - y0) * ratio
Lerp(y0, y1, ratio) == FAdd(y0, FMul(FSub(y1, y0), ratio))

\* a variant of _interp that holds the sample below the target instead of
\* interpolating
_interp_holding_lower(freq, values, target, cplx) ==
    LET n == Len(freq)
        idx == bisect_left(freq, target)
    IN  IF target <= freq[1] THEN values[1]
        ELSE IF target >= freq[n] THEN values[n]
        ELSE values[idx]

\* _interp; cplx stands for isinstance(y, complex)
_interp(freq, values, target, cplx) ==
    LET n == Len(freq)
        idx == bisect_left(freq, target)
    IN  IF target <= freq[1] THEN values[1]
        ELSE IF target >= freq[n] THEN values[n]
        ELSE IF idx <= 0 THEN values[1]
        ELSE IF idx >= n THEN values[n]
        ELSE LET x0 == freq[idx]
                 x1 == freq[idx + 1]
                 y0 == values[idx]
                 y1 == values[idx + 1]
                 ratio == Q(target - x0, x1 - x0)
             IN  IF x1 = x0 THEN y0
                 ELSE IF cplx
                      THEN <<Lerp(y0[1], y1[1], ratio), Lerp(y0[2], y1[2], ratio)>>
                      ELSE Lerp(y0, y1, ratio)

\* MeasurementTrace.resample; raises ValueError on an empty trace
resample(self, axis_hz) ==
    LET order == SortOrder(self.frequency_hz)
        freq_sorted == [k \in 1..Len(order) |-> self.frequency_hz[order[k]]]
        _sort(values) ==
            IF IsNone(values) THEN None
            ELSE Some([k \in 1..Len(order) |-> Val(values)[order[k]]])
        _interp_series(values, cplx) ==
            IF IsNone(values) THEN None
            ELSE Some([t \in 1..Len(axis_hz) |->
                          _interp(freq_sorted, Val(values), axis_hz[t], cplx)])
    IN  IF self.frequency_hz = <<>>
        THEN [raised |-> "ValueError"]
        ELSE [raised |-> "",
              value |-> MeasurementTrace(
                  axis_hz,
                  _interp_series(_sort(self.spl_db), FALSE),
                  _interp_series(_sort(self.phase_deg), FALSE),
                  _interp_series(_sort(self.impedance_ohm), TRUE),
                  _interp_series(_sort(self.thd_percent), FALSE))]

\* the two `continue` tests of bandpass's loop
Skipped(freq, minimum_hz, maximum_hz) ==
    \/ minimum_hz # None /\ freq < minimum_hz[1]
    \/ maximum_hz # None /\ freq > maximum_hz[1]

\* the ascending list of the indices bandpass keeps
RECURSIVE BandIndices(_, _, _, _)
BandIndices(freq, minimum_hz, maximum_hz, idx) ==
    IF idx > Len(freq) THEN <<>>
    ELSE IF Skipped(freq[idx], minimum_hz, maximum_hz)
         THEN BandIndices(freq, minimum_hz, maximum_hz, idx + 1)
    ELSE <<idx>> \o BandIndices(freq, minimum_hz, maximum_hz, idx + 1)

\* MeasurementTrace.bandpass; a bound is None or <<hz>>.  same_object tells
\* that the returned trace is the receiver itself and not a new instance.
bandpass(self, minimum_hz, maximum_hz) ==
    LET indices == BandIndices(self.frequency_hz, minimum_hz, maximum_hz, 1)
        _slice(series) ==
            IF IsNone(series) THEN None
            ELSE Some([k \in 1..Len(indices) |-> Val(series)[indices[k]]])
    IN  IF minimum_hz = None /\ maximum_hz = None
        THEN [raised |-> "", same_object |-> TRUE, value |-> self]
        ELSE IF minimum_hz # None /\ maximum_hz # None
                /\ minimum_hz[1] > maximum_hz[1]
        THEN [raised |-> "ValueError", same_object |-> FALSE]
        ELSE IF indices = <<>>
        THEN [raised |-> "ValueError", same_object |-> FALSE]
        ELSE [raised |-> "", same_object |-> FALSE,
              value |-> MeasurementTrace(
                  [k \in 1..Len(indices) |-> self.frequency_hz[indices[k]]],
                  _slice(self.spl_db),
                  _slice(self.phase_deg),
                  _slice(self.impedance_ohm),
                  _slice(self.thd_percent))]

(***************************************************************************)
(* NaN-aware statistics of the comparator.                                 *)
(***************************************************************************)
\* floor(sqrt(k)) for an integer k >= 0, by bisection on lo <= root < hi
RECURSIVE ISqrtBetween(_, _, _)
ISqrtBetween(k, lo, hi) ==
    IF hi - lo <= 1 THEN lo
    ELSE LET mid == (lo + hi) \div 2
         IN  IF mid * mid <= k THEN ISqrtBetween(k, mid, hi)
             ELSE ISqrtBetween(k, lo, mid)

ISqrt(k) == ISqrtBetween(k, 0, IF k < 46340 THEN k + 1 ELSE 46340)

\* n/d with both terms cut down until n * 10000 fits the integers of the
\* checker (the quotient keeps at least five significant digits)
RECURSIVE Shrunk(_, _)
Shrunk(n, d) ==
    IF n <= 200000 \/ d < 10 THEN <<n, d>> ELSE Shrunk(n \div 10, d \div 10)

\* math.sqrt of a finite x >= 0: exact when x is the square of a rational,
\* otherwise rounded down to a multiple of 1/100 (the rounding of the float)
Sqrt(x) ==
    LET rn == ISqrt(x[1])
        rd == ISqrt(x[2])
        cut == Shrunk(x[1], x[2])
    IN  IF IsNaN(x) THEN NaN
        ELSE IF rn * rn = x[1] /\ rd * rd = x[2] THEN Q(rn, rd)
        ELSE Q(ISqrt((cut[1] * 10000) \div cut[2]), 100)

\* sorted(values) for non-NaN values
SortedSeq(values) ==
    LET n == Len(values)
        Rank(i) == Cardinality({j \in 1..n :
                      FLt(values[j], values[i])
                      \/ (values[j] = values[i] /\ j < i)}) + 1
    IN  [k \in 1..n |-> values[CHOOSE i \in 1..n : Rank(i) = k]]

Square(x) == FMul(x, x)

\* _difference_series
_difference_series(measurement, prediction) ==
    IF IsNone(measurement) \/ IsNone(prediction) THEN None
    ELSE Some([i \in 1..Len(Val(measurement)) |->
                  FSub(Val(measurement)[i], Val(prediction)[i])])

\* abs() of a complex number
CAbs(z) == Sqrt(FAdd(Square(z[1]), Square(z[2])))

\* _impedance_delta
_impedance_delta(measurement, prediction) ==
    IF IsNone(measurement) \/ IsNone(prediction) THEN None
    ELSE Some([i \in 1..Len(Val(measurement)) |->
                  FSub(CAbs(Val(measurement)[i]), CAbs(Val(prediction)[i]))])

_rmse(values) ==
    IF IsNone(values) THEN None
    ELSE LET valid == DropNaN(Val(values))
         IN  IF valid = <<>> THEN None
             ELSE Sqrt(FDiv(SumSeq([i \in 1..Len(valid) |-> Square(valid[i])]), R(Len(valid))))

\* a variant of _mean that divides by the number of samples, NaN included
_mean_counting_gaps(values) ==
    IF IsNone(values) THEN None
    ELSE LET valid == DropNaN(Val(values))
         IN  IF valid = <<>> THEN None
             ELSE FDiv(SumSeq(valid), R(Len(Val(values))))

_mean(values) ==
    IF IsNone(values) THEN None
    ELSE LET valid == DropNaN(Val(values))
         IN  IF valid = <<>> THEN None
             ELSE FDiv(SumSeq(valid), R(Len(valid)))

_mae(values) ==
    IF IsNone(values) THEN None
    ELSE LET valid == Magnitudes(DropNaN(Val(values)))
         IN  IF valid = <<>> THEN None
             ELSE FDiv(SumSeq(valid), R(Len(valid)))

_median(values) ==
    LET ordered == SortedSeq(values)
        mid == Len(ordered) \div 2
    IN  IF Len(ordered) % 2 = 1 THEN ordered[mid + 1]
        ELSE FMul(Q(1, 2), FAdd(ordered[mid], ordered[mid + 1]))

_median_abs_deviation(values) ==
    IF IsNone(values) THEN None
    ELSE LET valid == DropNaN(Val(values))
             centre == _median(valid)
             deviations == [i \in 1..Len(valid) |-> FAbs(FSub(valid[i], centre))]
         IN  IF valid = <<>> THEN None
             ELSE _median(deviations)

_stddev(values) ==
    IF IsNone(values) THEN None
    ELSE LET valid == DropNaN(Val(values))
             mean == FDiv(SumSeq(valid), R(Len(valid)))
             variance ==
                 FDiv(SumSeq([i \in 1..Len(valid) |-> Square(FSub(valid[i], mean))]),
                      R(Len(valid)))
         IN  IF valid = <<>> THEN None
             ELSE IF Len(valid) = 1 THEN R(0)
             ELSE Sqrt(variance)

\* the (measurement, prediction) pairs in which neither value is NaN
RECURSIVE ValidPairs(_, _)
ValidPairs(measurement, prediction) ==
    IF measurement = <<>> THEN <<>>
    ELSE IF IsNaN(Head(measurement)) \/ IsNaN(Head(prediction))
         THEN ValidPairs(Tail(measurement), Tail(prediction))
    ELSE <<<<Head(measurement), Head(prediction)>>>>
             \o ValidPairs(Tail(measurement), Tail(prediction))

_pearson_correlation(measurement, prediction) ==
    IF IsNone(measurement) \/ IsNone(prediction) THEN None
    ELSE LET pairs == ValidPairs(Val(measurement), Val(prediction))
             n == Len(pairs)
             mean_meas == FDiv(SumSeq([i \in 1..n |-> pairs[i][1]]), R(n))
             mean_pred == FDiv(SumSeq([i \in 1..n |-> pairs[i][2]]), R(n))
             cov == SumSeq([i \in 1..n |->
                        FMul(FSub(pairs[i][1], mean_meas), FSub(pairs[i][2], mean_pred))])
             var_meas == SumSeq([i \in 1..n |-> Square(FSub(pairs[i][1], mean_meas))])
             var_pred == SumSeq([i \in 1..n |-> Square(FSub(pairs[i][2], mean_pred))])
             denom == Sqrt(FMul(var_meas, var_pred))
         IN  IF n < 2 THEN None
             ELSE IF FLe(denom, R(0)) THEN None
             ELSE FDiv(cov, denom)

_coefficient_of_determination(measurement, prediction) ==
    IF IsNone(measurement) \/ IsNone(prediction) THEN None
    ELSE LET pairs == ValidPairs(Val(measurement), Val(prediction))
             n == Len(pairs)
             mean_meas == FDiv(SumSeq([i \in 1..n |-> pairs[i][1]]), R(n))
             ss_tot == SumSeq([i \in 1..n |-> Square(FSub(pairs[i][1], mean_meas))])
             ss_res == SumSeq([i \in 1..n |-> Square(FSub(pairs[i][1], pairs[i][2]))])
         IN  IF n < 2 THEN None
             ELSE IF FLe(ss_tot, R(0)) THEN None
             ELSE FSub(R(1), FDiv(ss_res, ss_tot))

_max_abs(values) ==
    IF IsNone(values) THEN None
    ELSE LET valid == SortedSeq(Magnitudes(DropNaN(Val(values))))
         IN  IF valid = <<>> THEN None ELSE valid[Len(valid)]

\* _max_value: the running maximum over the non-NaN values, None if none
RECURSIVE MaxFrom(_, _)
MaxFrom(values, best) ==
    IF values = <<>> THEN best
    ELSE IF IsNaN(Head(values)) THEN MaxFrom(Tail(values), best)
    ELSE IF IsNone(best) \/ FGt(Head(values), best)
         THEN MaxFrom(Tail(values), Head(values))
    ELSE MaxFrom(Tail(values), best)

_max_value(values) == IF IsNone(values) THEN None ELSE MaxFrom(Val(values), None)

RECURSIVE MinFrom(_, _)
MinFrom(values, best) ==
    IF values = <<>> THEN best
    ELSE IF IsNaN(Head(values)) THEN MinFrom(Tail(values), best)
    ELSE IF IsNone(best) \/ FLt(Head(values), best)
         THEN MinFrom(Tail(values), Head(values))
    ELSE MinFrom(Tail(values), best)

_min_value(values) == IF IsNone(values) THEN None ELSE MinFrom(Val(values), None)

Floor(x) == x[1] \div x[2]

Ceil(x) == -((-x[1]) \div x[2])

_percentile_abs(values, percentile) ==
    IF IsNone(values) THEN None
    ELSE LET valid == SortedSeq(Magnitudes(DropNaN(Val(values))))
             position == FMul(percentile, R(Len(valid) - 1))
             lower == Floor(position)
             upper == Ceil(position)
             weight == FSub(position, R(lower))
         IN  IF valid = <<>> THEN None
             ELSE IF FLe(percentile, R(0)) THEN valid[1]
             ELSE IF FGe(percentile, R(1)) THEN valid[Len(valid)]
             ELSE IF lower = upper THEN valid[lower + 1]
             ELSE FAdd(FMul(valid[lower + 1], FSub(R(1), weight)),
                       FMul(valid[upper + 1], weight))

\* the non-NaN values of the samples with low <= f < high (a bound may be None)
RECURSIVE BandValues(_, _, _, _)
BandValues(frequency, values, low, high) ==
    IF frequency = <<>> THEN <<>>
    ELSE IF IsNaN(Head(values))
            \/ (low # None /\ Head(frequency) < low[1])
            \/ (high # None /\ Head(frequency) >= high[1])
         THEN BandValues(Tail(frequency), Tail(values), low, high)
    ELSE <<Head(values)>> \o BandValues(Tail(frequency), Tail(values), low, high)

_band_mean(frequency, values, low, high) ==
    IF IsNone(values) THEN None
    ELSE LET acc == BandValues(frequency, Val(values), low, high)
         IN  IF acc = <<>> THEN None
             ELSE FDiv(SumSeq(acc), R(Len(acc)))

\* _peak_frequency: the frequency of the first largest non-NaN value
RECURSIVE PeakFrom(_, _, _, _)
PeakFrom(frequency, values, best_freq, best_value) ==
    IF frequency = <<>> THEN best_freq
    ELSE IF IsNaN(Head(values))
         THEN PeakFrom(Tail(frequency), Tail(values), best_freq, best_value)
    ELSE IF IsNone(best_value) \/ FGt(Head(values), best_value)
         THEN PeakFrom(Tail(frequency), Tail(values), R(Head(frequency)), Head(values))
    ELSE PeakFrom(Tail(frequency), Tail(values), best_freq, best_value)

Reverse(series) == [i \in 1..Len(series) |-> series[Len(series) + 1 - i]]

\* a variant of _peak_frequency that compares with >= and so returns the
\* frequency of the last largest value
_peak_frequency_of_last(frequency, values) ==
    IF IsNone(values) THEN None
    ELSE PeakFrom(Reverse(frequency), Reverse(Val(values)), None, None)

_peak_frequency(frequency, values) ==
    IF IsNone(values) THEN None
    ELSE PeakFrom(frequency, Val(values), None, None)

(***************************************************************************)
(* Comparator: diagnosis heuristics and compare_measurement_to_prediction. *)
(* A note is modelled by the name of the branch that appends it.           *)
(***************************************************************************)
OptNote(cond, note) == IF cond THEN <<note>> ELSE <<>>

BandNote(label, value) ==
    OptNote(value # None /\ FGt(FAbs(value), R(1)), label)

\* a frequency counted in steps of 1/unit Hz, in Hz
InHz(steps, unit) == IF steps = None THEN None ELSE FDiv(steps, R(unit))

\* _diagnose_bias on an axis whose entries count steps of 1/unit Hz, so
\* that axes with fractional frequencies are integers too
_diagnose_bias_at(unit, frequency, spl_delta, measurement_spl, predicted_spl, port_length_m) ==
    LET overall_bias == _mean(spl_delta)
        level_trim == IF overall_bias # None THEN FNeg(overall_bias) ELSE None
        low_bias == _band_mean(frequency, spl_delta, None, <<45 * unit>>)
        mid_bias == _band_mean(frequency, spl_delta, <<45 * unit>>, <<120 * unit>>)
        high_bias == _band_mean(frequency, spl_delta, <<120 * unit>>, None)
        peak_measured == InHz(_peak_frequency(frequency, measurement_spl), unit)
        peak_predicted == InHz(_peak_frequency(frequency, predicted_spl), unit)
        has_peaks == /\ peak_measured # None
                     /\ peak_predicted # None
                     /\ FGt(peak_measured, R(0))
                     /\ FGt(peak_predicted, R(0))
        \* "if port_length_m and port_length_m > 0"
        has_port == /\ port_length_m # None
                    /\ port_length_m # R(0)
                    /\ FGt(port_length_m, R(0))
        tuning_shift == IF has_peaks THEN FSub(peak_measured, peak_predicted) ELSE None
        length_scale ==
            IF has_peaks /\ has_port
            THEN Square(FDiv(peak_predicted, peak_measured))
            ELSE None
        recommended_length_m ==
            IF has_peaks /\ has_port THEN FMul(port_length_m, length_scale) ELSE None
        delta == FSub(low_bias, mid_bias)
        leakage_hint ==
            IF low_bias # None /\ mid_bias # None
            THEN (IF FLe(delta, Q(-3, 2)) THEN "lower_q"
                  ELSE IF FGe(delta, Q(3, 2)) THEN "raise_q"
                  ELSE "None")
            ELSE "None"
        level_note ==
            OptNote(overall_bias # None /\ FGt(FAbs(overall_bias), Q(1, 2)), "level")
        tuning_noted == tuning_shift # None /\ FGt(FAbs(tuning_shift), Q(4, 5))
        tuning_note == OptNote(tuning_noted, "tuning")
        port_note ==
            OptNote(/\ tuning_noted
                    /\ length_scale # None
                    /\ FGt(FAbs(FSub(length_scale, R(1))), Q(1, 20)),
                    "port_length")
        leakage_note == OptNote(leakage_hint # "None", leakage_hint)
    IN  [overall_bias_db |-> overall_bias,
         recommended_level_trim_db |-> level_trim,
         low_band_bias_db |-> low_bias,
         mid_band_bias_db |-> mid_bias,
         high_band_bias_db |-> high_bias,
         tuning_shift_hz |-> tuning_shift,
         recommended_port_length_m |-> recommended_length_m,
         recommended_port_length_scale |-> length_scale,
         leakage_hint |-> leakage_hint,
         notes |-> level_note \o tuning_note \o port_note \o leakage_note
                   \o BandNote("low", low_bias) \o BandNote("mid", mid_bias)
                   \o BandNote("high", high_bias)]

\* _diagnose_bias on an axis in whole Hz
_diagnose_bias(frequency, spl_delta, measurement_spl, predicted_spl, port_length_m) ==
    _diagnose_bias_at(1, frequency, spl_delta, measurement_spl, predicted_spl, port_length_m)

MinOf(freq) == CHOOSE f \in {freq[i] : i \in 1..Len(freq)} :
                   \A i \in 1..Len(freq) : f <= freq[i]

MaxOf(freq) == CHOOSE f \in {freq[i] : i \in 1..Len(freq)} :
                   \A i \in 1..Len(freq) : f >= freq[i]

MeasurementStats(frequency_hz, measurement_spl, prediction_spl, spl_delta, phase_delta, impedance_delta) ==
    [sample_count |-> Len(frequency_hz),
     minimum_frequency_hz |-> MinOf(frequency_hz),
     maximum_frequency_hz |-> MaxOf(frequency_hz),
     spl_rmse_db |-> _rmse(spl_delta),
     spl_mae_db |-> _mae(spl_delta),
     spl_bias_db |-> _mean(spl_delta),
     spl_median_abs_dev_db |-> _median_abs_deviation(spl_delta),
     spl_std_dev_db |-> _stddev(spl_delta),
     spl_pearson_r |-> _pearson_correlation(measurement_spl, prediction_spl),
     spl_r_squared |-> _coefficient_of_determination(measurement_spl, prediction_spl),
     spl_p95_abs_error_db |-> _percentile_abs(spl_delta, Q(95, 100)),
     spl_highest_delta_db |-> _max_value(spl_delta),
     spl_lowest_delta_db |-> _min_value(spl_delta),
     max_spl_delta_db |-> _max_abs(spl_delta),
     phase_rmse_deg |-> _rmse(phase_delta),
     impedance_mag_rmse_ohm |-> _rmse(impedance_delta)]

\* compare_measurement_to_prediction without smoothing (smoothing_fraction
\* is None); raises ValueError when either trace is empty
compare_measurement_to_prediction(measurement, prediction, port_length_m) ==
    LET prediction_resampled == resample(prediction, measurement.frequency_hz).value
        spl_delta == _difference_series(measurement.spl_db, prediction_resampled.spl_db)
        phase_delta ==
            _difference_series(measurement.phase_deg, prediction_resampled.phase_deg)
        impedance_delta ==
            _impedance_delta(measurement.impedance_ohm, prediction_resampled.impedance_ohm)
    IN  IF measurement.frequency_hz = <<>> THEN [raised |-> "ValueError"]
        ELSE IF resample(prediction, measurement.frequency_hz).raised # ""
        THEN [raised |-> "ValueError"]
        ELSE [raised |-> "",
              delta |-> [frequency_hz |-> measurement.frequency_hz,
                         spl_delta_db |-> spl_delta,
                         phase_delta_deg |-> phase_delta,
                         impedance_delta_ohm |-> impedance_delta,
                         thd_delta_percent |-> None],
              stats |-> MeasurementStats(measurement.frequency_hz, measurement.spl_db,
                                         prediction_resampled.spl_db, spl_delta,
                                         phase_delta, impedance_delta),
              diagnosis |-> _diagnose_bias(measurement.frequency_hz, spl_delta,
                                           measurement.spl_db,
                                           prediction_resampled.spl_db,
                                           port_length_m)]

(***************************************************************************)
(* Calibration engine: Gaussian updates of the three parameters.           *)
(***************************************************************************)
ParameterPrior(mean, variance) == [mean |-> mean, variance |-> variance]

CalibrationPrior(level, port, leakage) ==
    [level_trim_db |-> level, port_length_scale |-> port, leakage_q_scale |-> leakage]

\* CalibrationPrior.default()
DefaultPrior ==
    CalibrationPrior(ParameterPrior(R(0), R(4)),
                     ParameterPrior(R(1), Q(4, 100)),
                     ParameterPrior(R(1), Q(9, 100)))

_LEVEL_OBS_VARIANCE == Q(9, 16)
_PORT_SCALE_OBS_VARIANCE == Q(64, 10000)
_LEAKAGE_OBS_VARIANCE == Q(225, 10000)
_CONFIDENCE == Q(95, 100)

\* min(a, b) of Python: b when b < a, otherwise a
PyMin(a, b) == IF FLt(b, a) THEN b ELSE a

\* a variant of _gaussian_update that weights the prior mean with the
\* observation's precision and the observation with the prior's
_gaussian_update_swapped(prior_mean, prior_variance, observation, observation_variance) ==
    LET precision_prior == FDiv(R(1), prior_variance)
        precision_obs == FDiv(R(1), observation_variance)
        posterior_variance == FDiv(R(1), FAdd(precision_prior, precision_obs))
        posterior_mean ==
            FMul(posterior_variance,
                 FAdd(FMul(precision_obs, prior_mean),
                      FMul(precision_prior, observation)))
    IN  IF FLe(prior_variance, R(0)) THEN <<observation, observation_variance>>
        ELSE <<posterior_mean, posterior_variance>>

\* _gaussian_update: <<posterior mean, posterior variance>>
_gaussian_update(prior_mean, prior_variance, observation, observation_variance) ==
    LET precision_prior == FDiv(R(1), prior_variance)
        precision_obs == FDiv(R(1), observation_variance)
        posterior_variance == FDiv(R(1), FAdd(precision_prior, precision_obs))
        posterior_mean ==
            FMul(posterior_variance,
                 FAdd(FMul(precision_prior, prior_mean),
                      FMul(precision_obs, observation)))
    IN  IF FLe(prior_variance, R(0)) THEN <<observation, observation_variance>>
        ELSE <<posterior_mean, posterior_variance>>

\* _z_score(0.95) = 1.959963984540054, kept to three digits
_z_score == Q(196, 100)

\* _credible_interval at the fixed confidence: None or <<lower, upper, confidence>>
_credible_interval(mean, variance, confidence) ==
    IF FLe(variance, R(0)) THEN None
    ELSE LET sigma == Sqrt(variance)
         IN  <<FSub(mean, FMul(_z_score, sigma)),
               FAdd(mean, FMul(_z_score, sigma)), confidence>>

\* a variant of _parameter without the guard for a prior variance <= 0
_parameter_unguarded(posterior_mean, posterior_variance, prior, observation, observation_variance) ==
    [mean |-> posterior_mean,
     variance |-> posterior_variance,
     prior_mean |-> prior.mean,
     prior_variance |-> prior.variance,
     observation |-> observation,
     observation_variance |-> observation_variance,
     update_weight |->
         FSub(R(1), PyMin(FDiv(posterior_variance, prior.variance), R(1))),
     credible_interval |->
         _credible_interval(posterior_mean, posterior_variance, _CONFIDENCE)]

\* _parameter
_parameter(posterior_mean, posterior_variance, prior, observation, observation_variance) ==
    LET update_weight ==
            IF FLe(prior.variance, R(0)) THEN R(1)
            ELSE FSub(R(1), PyMin(FDiv(posterior_variance, prior.variance), R(1)))
    IN  [mean |-> posterior_mean,
         variance |-> posterior_variance,
         prior_mean |-> prior.mean,
         prior_variance |-> prior.variance,
         observation |-> observation,
         observation_variance |-> observation_variance,
         update_weight |-> IF observation # None THEN update_weight ELSE R(0),
         credible_interval |->
             _credible_interval(posterior_mean, posterior_variance, _CONFIDENCE)]

\* the body shared by _update_level_trim, _update_port_scale and
\* _update_leakage_scale once the observation is known
Updated(prior, observation, observation_variance) ==
    LET posterior == _gaussian_update(prior.mean, prior.variance,
                                      observation, observation_variance)
    IN  _parameter(posterior[1], posterior[2], prior, observation, observation_variance)

_update_level_trim(diagnosis, prior) ==
    LET observation == diagnosis.recommended_level_trim_db
    IN  IF observation = None \/ IsNaN(observation) THEN None
        ELSE Updated(prior, observation, _LEVEL_OBS_VARIANCE)

_update_port_scale(diagnosis, prior) ==
    LET observation == diagnosis.recommended_port_length_scale
    IN  IF observation = None \/ IsNaN(observation) THEN None
        ELSE Updated(prior, observation, _PORT_SCALE_OBS_VARIANCE)

\* a variant of _leakage_observation with the two observations exchanged
_leakage_observation_exchanged(diagnosis) ==
    IF diagnosis.leakage_hint = "lower_q" THEN Q(85, 100)
    ELSE IF diagnosis.leakage_hint = "raise_q" THEN Q(115, 100)
    ELSE None

_leakage_observation(diagnosis) ==
    IF diagnosis.leakage_hint = "lower_q" THEN Q(115, 100)
    ELSE IF diagnosis.leakage_hint = "raise_q" THEN Q(85, 100)
    ELSE None

_update_leakage_scale(diagnosis, prior) ==
    LET observation == _leakage_observation(diagnosis)
    IN  IF observation = None THEN None
        ELSE Updated(prior, observation, _LEAKAGE_OBS_VARIANCE)

\* _format_notes: one note per parameter that is not None, named by its label
_format_notes(level, port, leakage) ==
    OptNote(level # None, "Level trim") \o OptNote(port # None, "Port scale")
        \o OptNote(leakage # None, "Leakage Q")

\* derive_calibration_update; a prior of None stands for the default prior
derive_calibration_update(diagnosis, prior) ==
    LET priors == IF prior = None THEN DefaultPrior ELSE prior
        level == _update_level_trim(diagnosis, priors.level_trim_db)
        port == _update_port_scale(diagnosis, priors.port_length_scale)
        leakage == _update_leakage_scale(diagnosis, priors.leakage_q_scale)
    IN  [level_trim_db |-> level,
         port_length_scale |-> port,
         leakage_q_scale |-> leakage,
         notes |-> _format_notes(level, port, leakage)]

(***************************************************************************)
(* Overrides.  Port lengths, leakage Q and their scales are rationals; the *)
(* range of a float is scaled down to 1/FloatMax .. FloatMax, beyond which *)
(* a product overflows to an infinity or underflows to zero.               *)
(*                                                                         *)
(* A drive voltage or voltage scale is modelled by its level, because the  *)
(* engine converts a trim with 10 ** (-trim / 20) and the solver converts  *)
(* back with 20 * log10: a positive finite v is <<"dB", 20 * log10(v)>>,   *)
(* and the other floats are <<"zero">>, <<"negative">>, <<"nan">>,         *)
(* <<"inf">> and <<"-inf">>.                                               *)
(***************************************************************************)
FloatMax == 10000

\* the float a real product is stored as
FloatRange(x) ==
    IF ~IsFinite(x) \/ x = R(0) THEN x
    ELSE IF FGt(FAbs(x), R(FloatMax)) THEN <<Sign(x[1]), 0>>
    ELSE IF FLt(FAbs(x), Q(1, FloatMax)) THEN R(0)
    ELSE x

\* 20 * log10 of the largest and of the smallest positive double
FloatMaxDb == 6165
FloatMinDb == -6466

Level(db) == <<"dB", db>>
VZero == <<"zero">>
VNegative == <<"negative">>
VNaN == <<"nan">>
VInf == <<"inf">>
VNegInf == <<"-inf">>

\* math.isfinite(v) and v > 0, for a voltage or voltage scale
VIsFinite(v) == v[1] \in {"dB", "zero", "negative"}
VPositive(v) == v[1] \in {"dB", "inf"}

\* base * scale for a positive finite base and a positive finite scale
VTimes(base, scale) ==
    LET db == FAdd(base[2], scale[2])
    IN  IF FGt(db, R(FloatMaxDb)) THEN VInf
        ELSE IF FLt(db, R(FloatMinDb)) THEN VZero
        ELSE Level(db)

\* a variant of _drive_voltage_scale with the sign of the exponent lost:
\* 10 ** (trim / 20)
_drive_voltage_scale_inverted(parameter) ==
    IF parameter = None THEN None
    ELSE IF ~IsFinite(parameter.mean) THEN None
    ELSE Level(parameter.mean)

\* what 10.0 ** x leaves behind when the power exceeds the largest double
Overflowed == [raised |-> "OverflowError"]

Raised(result) == "raised" \in DOMAIN result /\ result.raised # ""

\* _drive_voltage_scale: 10.0 ** (-mean / 20.0), None unless finite and
\* positive.  An infinite mean gives 0.0 or inf and a NaN mean NaN; a finite
\* power beyond the largest double raises OverflowError, one below the
\* smallest positive double is 0.0.
_drive_voltage_scale(parameter) ==
    IF parameter = None THEN None
    ELSE IF ~IsFinite(parameter.mean) THEN None
    ELSE IF FGt(FNeg(parameter.mean), R(FloatMaxDb)) THEN Overflowed
    ELSE IF FLt(FNeg(parameter.mean), R(FloatMinDb)) THEN None
    ELSE Level(FNeg(parameter.mean))

\* _positive_mean
_positive_mean(parameter) ==
    IF parameter = None THEN None
    ELSE IF ~IsFinite(parameter.mean) \/ FLe(parameter.mean, R(0)) THEN None
    ELSE parameter.mean

\* _scaled_value for a port length or a leakage Q
_scaled_value(base, scale) ==
    IF base = None \/ scale = None THEN None
    ELSE IF ~IsFinite(base) \/ FLe(base, R(0)) THEN None
    ELSE LET value == FloatRange(FMul(base, scale))
         IN  IF IsFinite(value) /\ FGt(value, R(0)) THEN value ELSE None

\* _scaled_value for a drive voltage; the scale comes from
\* _drive_voltage_scale and is None or positive and finite
_scaled_voltage(base, scale) ==
    IF base = None \/ scale = None THEN None
    ELSE IF ~VIsFinite(base) \/ ~VPositive(base) THEN None
    ELSE LET value == VTimes(base, scale)
         IN  IF VIsFinite(value) /\ VPositive(value) THEN value ELSE None

CalibrationOverrides(drive_scale, drive_voltage, port_scale, port_length, leakage_scale, leakage_value) ==
    [drive_voltage_scale |-> drive_scale,
     drive_voltage_v |-> drive_voltage,
     port_length_scale |-> port_scale,
     port_length_m |-> port_length,
     leakage_q_scale |-> leakage_scale,
     leakage_q |-> leakage_value]

\* derive_calibration_overrides; an OverflowError of _drive_voltage_scale
\* leaves the function before anything is returned
derive_calibration_overrides(calibration, drive_voltage_v, port_length_m, leakage_q) ==
    LET drive_scale == _drive_voltage_scale(calibration.level_trim_db)
        port_scale == _positive_mean(calibration.port_length_scale)
        leakage_scale == _positive_mean(calibration.leakage_q_scale)
    IN  IF drive_scale = Overflowed THEN Overflowed
        ELSE CalibrationOverrides(drive_scale,
                                  _scaled_voltage(drive_voltage_v, drive_scale),
                                  port_scale,
                                  _scaled_value(port_length_m, port_scale),
                                  leakage_scale,
                                  _scaled_value(leakage_q, leakage_scale))

\* a variant of apply_calibration_overrides_to_drive_voltage that trusts
\* the product of the baseline and a valid scale
apply_calibration_overrides_to_drive_voltage_trusting(base_voltage_v, overrides) ==
    LET scale == overrides.drive_voltage_scale
        candidate ==
            IF overrides.drive_voltage_v = None /\ scale # None
               /\ VIsFinite(scale) /\ VPositive(scale)
            THEN VTimes(base_voltage_v, scale)
            ELSE overrides.drive_voltage_v
    IN  IF overrides = None THEN base_voltage_v
        ELSE IF overrides.drive_voltage_v = None /\ candidate # None THEN candidate
        ELSE IF candidate = None \/ ~VIsFinite(candidate) \/ ~VPositive(candidate)
        THEN base_voltage_v
        ELSE candidate

\* apply_calibration_overrides_to_drive_voltage
apply_calibration_overrides_to_drive_voltage(base_voltage_v, overrides) ==
    LET scale == overrides.drive_voltage_scale
        candidate ==
            IF overrides.drive_voltage_v = None /\ scale # None
               /\ VIsFinite(scale) /\ VPositive(scale)
            THEN VTimes(base_voltage_v, scale)
            ELSE overrides.drive_voltage_v
    IN  IF overrides = None THEN base_voltage_v
        ELSE IF candidate = None \/ ~VIsFinite(candidate) \/ ~VPositive(candidate)
        THEN base_voltage_v
        ELSE candidate

\* _resolved_positive
_resolved_positive(base, value, scale) ==
    LET candidate ==
            IF value = None /\ scale # None /\ IsFinite(scale) /\ FGt(scale, R(0))
            THEN FloatRange(FMul(base, scale))
            ELSE value
    IN  IF candidate = None \/ ~IsFinite(candidate) \/ FLe(candidate, R(0))
        THEN base
        ELSE candidate

(***************************************************************************)
(* Boxes.  A box is a mutable object: a call returns the value of its      *)
(* result, whether the result is the very object it was given              *)
(* (same_object) and whether the result's port is the port object of the   *)
(* input (same_port), and the input box as the call leaves it (box_after). *)
(***************************************************************************)
BoxDesign(volume_l, leakage_q) ==
    [kind |-> "BoxDesign", volume_l |-> volume_l, leakage_q |-> leakage_q]

PortGeometry(diameter_m, length_m, count, flare_factor, loss_q) ==
    [diameter_m |-> diameter_m, length_m |-> length_m, count |-> count,
     flare_factor |-> flare_factor, loss_q |-> loss_q]

VentedBoxDesign(volume_l, port, leakage_q) ==
    [kind |-> "VentedBoxDesign", volume_l |-> volume_l, port |-> port,
     leakage_q |-> leakage_q]

\* apply_calibration_overrides_to_box; no statement of it assigns to the
\* box or to its port
apply_calibration_overrides_to_box(box, overrides) ==
    LET leakage_q == _resolved_positive(box.leakage_q, overrides.leakage_q,
                                        overrides.leakage_q_scale)
        port == box.port
        length == _resolved_positive(port.length_m, overrides.port_length_m,
                                     overrides.port_length_scale)
        updated_port == PortGeometry(port.diameter_m, length, port.count,
                                     port.flare_factor, port.loss_q)
    IN  IF overrides = None
        THEN [same_object |-> TRUE, same_port |-> TRUE, value |-> box, box_after |-> box]
        ELSE IF box.kind = "VentedBoxDesign"
        THEN [same_object |-> FALSE, same_port |-> FALSE,
              value |-> VentedBoxDesign(box.volume_l, updated_port, leakage_q),
              box_after |-> box]
        ELSE [same_object |-> FALSE, same_port |-> FALSE,
              value |-> BoxDesign(box.volume_l, leakage_q), box_after |-> box]

(***************************************************************************)
(* Solvers.  The lumped models are linear in the drive voltage, so a       *)
(* driver in its box is described by the levels it reaches at 1 V and 1 m: *)
(* SPL, cone velocity, cone displacement and port air velocity at each     *)
(* frequency.  Voltages, distances, velocities and displacements are kept  *)
(* as levels (20 * log10 of the quantity), which makes the products,       *)
(* quotients and logarithms of the solvers exact; the dependence of the    *)
(* levels on the Thiele/Small and box parameters is taken to first order   *)
(* around the reference driver and boxes.                                  *)
(***************************************************************************)
SplFloor == Q(-240, 1)

\* a negative quantity of the given magnitude
NegLevel(db) == <<"-dB", db>>

\* q <= 0
NonPositive(q) == q[1] \in {"zero", "negative", "-dB", "-inf"}

\* abs(q)
Magnitude(q) == IF q[1] = "-dB" THEN Level(q[2]) ELSE q

DriverParameters(fs_hz, qts, re_ohm, bl_t_m, mms_kg, sd_m2, le_h, vas_l, xmax_mm) ==
    [fs_hz |-> fs_hz, qts |-> qts, re_ohm |-> re_ohm, bl_t_m |-> bl_t_m,
     mms_kg |-> mms_kg, sd_m2 |-> sd_m2, le_h |-> le_h, vas_l |-> vas_l,
     xmax_mm |-> xmax_mm]

\* DriverParameters.xmax_m: xmax_mm / 1000.0, the rating being kept as a
\* level re 1 mm (or zero)
xmax_m(driver) ==
    IF driver.xmax_mm = None THEN None
    ELSE IF driver.xmax_mm = VZero THEN VZero
    ELSE Level(FSub(driver.xmax_mm[2], R(60)))

\* the driver and boxes the levels below are given for
ReferenceDriver ==
    DriverParameters(R(30), Q(2, 5), R(6), R(10), Q(1, 20), Q(1, 20), Q(1, 1000),
                     R(60), Level(R(18)))

ReferenceVolume == R(55)

ReferencePort == PortGeometry(Q(1, 10), Q(1, 4), 1, Q(17, 10), R(18))

\* value / reference - 1
Relative(value, reference) == FSub(FDiv(value, reference), R(1))

\* first-order change of the levels, in dB, with the parameters (20 * log10
\* (1 + r) is about 9 * r): the force factor and the cone area raise the
\* pressure, the coil resistance and the moving mass lower it; a larger box
\* lets the cone travel further; a wider port slows its air
PressureShift(driver) ==
    FMul(R(9), FSub(FAdd(Relative(driver.bl_t_m, ReferenceDriver.bl_t_m),
                         Relative(driver.sd_m2, ReferenceDriver.sd_m2)),
                    FAdd(Relative(driver.re_ohm, ReferenceDriver.re_ohm),
                         Relative(driver.mms_kg, ReferenceDriver.mms_kg))))

MotionShift(driver, box) ==
    FAdd(FMul(R(9), FSub(Relative(driver.bl_t_m, ReferenceDriver.bl_t_m),
                         Relative(driver.re_ohm, ReferenceDriver.re_ohm))),
         FMul(R(4), Relative(box.volume_l, ReferenceVolume)))

PortShift(driver, box) ==
    IF box.kind # "VentedBoxDesign" THEN R(0)
    ELSE FSub(MotionShift(driver, box),
              FMul(R(18), Relative(box.port.diameter_m, ReferencePort.diameter_m)))

\* levels of the reference driver at 1 V and 1 m: SPL, cone velocity (re
\* 1 m/s), cone displacement (re 1 m) and port air velocity (re 1 m/s)
ReferenceSpl == [f \in FreqValues |-> IF f = 50 THEN R(80) ELSE IF f = 20 THEN R(70) ELSE R(75)]
ReferenceVelocity == [f \in FreqValues |-> IF f = 50 THEN R(-20) ELSE R(-26)]
ReferenceDisplacement == [f \in FreqValues |-> IF f = 20 THEN R(-58) ELSE IF f = 50 THEN R(-70) ELSE R(-84)]
ReferencePortVelocity == [f \in FreqValues |-> IF f = 20 THEN R(12) ELSE R(2)]

ImpedanceCurve == [f \in FreqValues |-> <<R(6), R(1)>>]

\* a constructed solver
Solver(kind, driver, box, drive_voltage) ==
    [raised |-> "", kind |-> kind, driver |-> driver, box |-> box,
     drive_voltage |-> drive_voltage]

\* SealedBoxSolver.__init__: no argument is checked
SealedBoxSolver(driver, box, drive_voltage) ==
    Solver("sealed", driver, box, drive_voltage)

\* VentedBoxSolver.__init__
VentedBoxSolver(driver, box, drive_voltage) ==
    IF NonPositive(drive_voltage) THEN [raised |-> "ValueError"]
    ELSE Solver("vented", driver, box, drive_voltage)

\* HybridBoxSolver.__init__
HybridBoxSolver(driver, enclosure, drive_voltage, grid_resolution) ==
    IF NonPositive(drive_voltage) THEN [raised |-> "ValueError"]
    ELSE IF grid_resolution < 8 THEN [raised |-> "ValueError"]
    ELSE Solver("hybrid", driver, enclosure, drive_voltage)

\* the level of a quantity that is linear in the drive voltage
Driven(drive_voltage, level_at_1v) ==
    IF drive_voltage[1] \in {"dB", "-dB"}
    THEN Level(FAdd(drive_voltage[2], level_at_1v))
    ELSE VZero

\* spl = 20.0 * log10(max(pressure / P_REF, 1e-12)); the pressure falls
\* with the microphone distance and takes its sign
SplAt(solver, f, mic_distance_m) ==
    LET pressure == Driven(solver.drive_voltage,
                           FAdd(ReferenceSpl[f], PressureShift(solver.driver)))
    IN  IF pressure = VZero \/ mic_distance_m[1] # "dB" THEN SplFloor
        ELSE LET spl == FSub(pressure[2], mic_distance_m[2])
             IN  IF FGt(spl, SplFloor) THEN spl ELSE SplFloor

\* a variant of the test of a frequency that passes over 20 Hz as well
Evaluated_above_20(f) == ~(f <= 20)

\* if f <= 0: continue
Evaluated(f) == ~(f <= 0)

\* frequency_response of the three solvers.  The vented and the hybrid
\* solver check the microphone distance first; the sealed solver divides by
\* it at the first frequency it evaluates.
frequency_response(solver, frequencies_hz, mic_distance_m) ==
    LET freq_list == SelectSeq(frequencies_hz, Evaluated)
        n == Len(freq_list)
        common ==
            [raised |-> "",
             frequency_hz |-> freq_list,
             spl_db |-> [k \in 1..n |-> SplAt(solver, freq_list[k], mic_distance_m)],
             impedance_ohm |-> [k \in 1..n |-> ImpedanceCurve[freq_list[k]]],
             cone_velocity_ms |->
                 [k \in 1..n |->
                     Driven(solver.drive_voltage,
                            FAdd(ReferenceVelocity[freq_list[k]],
                                 MotionShift(solver.driver, solver.box)))]]
        cone_displacement_m ==
            [k \in 1..n |->
                Driven(solver.drive_voltage,
                       FAdd(ReferenceDisplacement[freq_list[k]],
                            MotionShift(solver.driver, solver.box)))]
        port_velocity ==
            [k \in 1..n |->
                IF solver.box.kind # "VentedBoxDesign" THEN VZero
                ELSE Driven(solver.drive_voltage,
                            FAdd(ReferencePortVelocity[freq_list[k]],
                                 PortShift(solver.driver, solver.box)))]
    IN  IF solver.kind = "sealed"
        THEN IF mic_distance_m = VZero /\ n > 0
             THEN [raised |-> "ZeroDivisionError"]
             ELSE [f \in DOMAIN common \cup {"cone_displacement_m"} |->
                      IF f = "cone_displacement_m" THEN cone_displacement_m
                      ELSE common[f]]
        ELSE IF NonPositive(mic_distance_m) THEN [raised |-> "ValueError"]
        ELSE IF solver.kind = "vented"
        THEN [f \in DOMAIN common \cup {"cone_displacement_m", "port_air_velocity_ms"} |->
                 IF f = "cone_displacement_m" THEN cone_displacement_m
                 ELSE IF f = "port_air_velocity_ms" THEN port_velocity
                 ELSE common[f]]
        ELSE [f \in DOMAIN common \cup {"port_velocity_ms"} |->
                 IF f = "port_velocity_ms" THEN port_velocity ELSE common[f]]

\* measurement_from_response
measurement_from_response(response) ==
    MeasurementTrace(response.frequency_hz, Some(response.spl_db), None,
                     Some(response.impedance_ohm), None)

(***************************************************************************)
(* Band edges and alignment summaries.                                     *)
(***************************************************************************)
\* _crosses
_crosses(a, b, threshold) ==
    FLe(FMul(FSub(a, threshold), FSub(b, threshold)), R(0)) /\ a # b

\* a variant of _interpolate that answers the middle of the two samples
_interpolate_midpoint(f1, v1, f2, v2, threshold) == FDiv(FAdd(f1, f2), R(2))

\* _interpolate
_interpolate(f1, v1, f2, v2, threshold) ==
    IF v2 = v1 THEN FDiv(FAdd(f1, f2), R(2))
    ELSE FAdd(f1, FMul(FDiv(FSub(threshold, v1), FSub(v2, v1)), FSub(f2, f1)))

\* the loop of _search_edge from index idx on, prev being the index before
RECURSIVE SearchFrom(_, _, _, _, _, _)
SearchFrom(freqs, mags, prev, idx, step, threshold) ==
    IF idx < 1 \/ idx > Len(freqs) THEN freqs[prev]
    ELSE IF mags[idx] = threshold THEN freqs[idx]
    ELSE IF _crosses(mags[prev], mags[idx], threshold)
    THEN _interpolate(freqs[prev], mags[prev], freqs[idx], mags[idx], threshold)
    ELSE SearchFrom(freqs, mags, idx, idx + step, step, threshold)

\* _search_edge; indices count from 1
_search_edge(freqs, mags, start_idx, step, threshold) ==
    SearchFrom(freqs, mags, start_idx, start_idx + step, step, threshold)

\* mags.index(max(mags))
PeakIndex(mags) ==
    CHOOSE i \in 1..Len(mags) :
        /\ \A j \in 1..Len(mags) : FLe(mags[j], mags[i])
        /\ \A j \in 1..(i - 1) : mags[j] # mags[i]

\* find_band_edges: <<low, high>>; frequencies are numbers of Hz, the
\* edges rationals
find_band_edges(frequencies, values, drop_db) ==
    IF Len(frequencies) # Len(values) \/ frequencies = <<>> THEN <<None, None>>
    ELSE LET order == SortOrder(frequencies)
             freqs == [k \in 1..Len(order) |-> R(frequencies[order[k]])]
             mags == [k \in 1..Len(order) |-> values[order[k]]]
             threshold == FSub(mags[PeakIndex(mags)], drop_db)
         IN  <<_search_edge(freqs, mags, PeakIndex(mags), -1, threshold),
               _search_edge(freqs, mags, PeakIndex(mags), 1, threshold)>>

\* max(levels, default=0.0) for quantities that are zero or positive
RECURSIVE MaxLevel(_)
MaxLevel(levels) ==
    IF levels = <<>> THEN VZero
    ELSE LET rest == MaxLevel(Tail(levels))
         IN  IF Head(levels) = VZero THEN rest
             ELSE IF rest = VZero \/ FGe(Head(levels)[2], rest[2]) THEN Head(levels)
             ELSE rest

\* safe_drive = self.drive_voltage / max(excursion_ratio, 1.0)
safe_drive_voltage(drive_voltage, excursion_ratio) ==
    IF FGt(excursion_ratio[2], R(0))
    THEN [drive_voltage EXCEPT ![2] = FSub(@, excursion_ratio[2])]
    ELSE drive_voltage

\* alignment_summary of the sealed and of the vented solver, without the
\* resonance figures (fc_hz, qtc, fb_hz); excursion_headroom_db is
\* -20 * log10(excursion_ratio)
alignment_summary(solver, response) ==
    LET max_displacement == MaxLevel(response.cone_displacement_m)
        xmax == xmax_m(solver.driver)
        rated == xmax # None /\ xmax # VZero /\ max_displacement # VZero
        excursion_ratio == Level(FSub(max_displacement[2], xmax[2]))
        edges == find_band_edges(response.frequency_hz, response.spl_db, R(3))
    IN  [f3_low_hz |-> edges[1],
         f3_high_hz |-> edges[2],
         max_spl_db |-> IF response.spl_db = <<>> THEN R(0)
                        ELSE MaxFrom(response.spl_db, None),
         max_cone_velocity_ms |-> MaxLevel(response.cone_velocity_ms),
         max_cone_displacement_m |-> max_displacement,
         max_port_velocity_ms |->
             IF solver.kind = "vented" THEN MaxLevel(response.port_air_velocity_ms)
             ELSE None,
         excursion_ratio |-> IF rated THEN excursion_ratio ELSE None,
         excursion_headroom_db |-> IF rated THEN FNeg(excursion_ratio[2]) ELSE None,
         safe_drive_voltage_v |->
             IF rated THEN safe_drive_voltage(solver.drive_voltage, excursion_ratio)
             ELSE None]

(***************************************************************************)
(* Monte Carlo tolerance analysis.  A Random is its seed and the number of *)
(* values drawn from it so far; random() is a fixed sequence per seed, of  *)
(* quarters.                                                               *)
(* The report holds the statistics of the metrics that are levels in dB or *)
(* frequencies in Hz.                                                      *)
(***************************************************************************)
Random(seed) == [seed |-> seed, drawn |-> 0]

\* the value random() returns as draw number k + 1 of a generator
random(rng, k) == Q((rng.seed + (2 * rng.seed + 1) * (rng.drawn + k)) % 4, 4)

\* rng.uniform(a, b)
uniform(a, b, u) == FAdd(a, FMul(FSub(b, a), u))

\* the only value of a set of one: an intermediate result, computed once
Only(S) == CHOOSE x \in S : TRUE

\* max(value, floor_value) for a floor of 0 or 1e-k, given as <<1, 10^k>>
AtLeast(value, floor_value) ==
    IF FLe(value, R(0)) THEN floor_value
    ELSE IF floor_value = R(0) THEN value
    ELSE IF value[1] <= value[2] \div floor_value[2] THEN floor_value
    ELSE value

\* whether _vary draws from the generator
Draws(value, deviation) ==
    ~(value = None \/ FLe(deviation, R(0)) \/ value = R(0))

\* a variant of _vary that adds the deviation to the value instead of
\* scaling the value by it
_vary_by_sum(value, deviation, u, floor_value) ==
    IF ~Draws(value, deviation) THEN value
    ELSE LET varied == FAdd(value, uniform(FNeg(deviation), deviation, u))
         IN  IF varied = R(0) THEN floor_value ELSE AtLeast(varied, floor_value)

\* _vary, u being the value random() returns if the generator is asked
_vary(value, deviation, u, floor_value) ==
    IF ~Draws(value, deviation) THEN value
    ELSE LET varied == FMul(value, FAdd(R(1), uniform(FNeg(deviation), deviation, u)))
         IN  IF varied = R(0) THEN floor_value ELSE AtLeast(varied, floor_value)

ToleranceSpec(fs, qts, vas, re, bl, mms, sd, le, volume, diameter, length) ==
    [driver_fs_pct |-> fs, driver_qts_pct |-> qts, driver_vas_pct |-> vas,
     driver_re_pct |-> re, driver_bl_pct |-> bl, driver_mms_pct |-> mms,
     driver_sd_pct |-> sd, driver_le_pct |-> le, box_volume_pct |-> volume,
     port_diameter_pct |-> diameter, port_length_pct |-> length]

DEFAULT_TOLERANCES ==
    ToleranceSpec(Q(15, 100), Q(20, 100), Q(10, 100), Q(5, 100), Q(5, 100), Q(5, 100),
                  Q(2, 100), Q(10, 100), Q(5, 100), Q(6, 100), Q(8, 100))

\* the calls of _vary in _vary_driver followed by those of _vary_box or
\* _vary_vented_box, in the order they are made: value, deviation, the
\* floor handed to _vary and the floor applied to its result
Variations(driver, design, spec) ==
    <<<<driver.fs_hz, spec.driver_fs_pct, Q(1, 1000000000), R(0)>>,
      <<driver.qts, spec.driver_qts_pct, Q(1, 1000000000), Q(1, 1000)>>,
      <<driver.re_ohm, spec.driver_re_pct, Q(1, 1000000000), Q(1, 1000)>>,
      <<driver.bl_t_m, spec.driver_bl_pct, Q(1, 1000000000), Q(1, 1000)>>,
      <<driver.mms_kg, spec.driver_mms_pct, Q(1, 1000000000), Q(1, 1000000)>>,
      <<driver.sd_m2, spec.driver_sd_pct, Q(1, 1000000000), Q(1, 1000000)>>,
      <<driver.le_h, spec.driver_le_pct, R(0), R(0)>>,
      <<driver.vas_l, spec.driver_vas_pct, Q(1, 1000000000), Q(1, 1000000)>>>>
    \o (IF design.kind = "VentedBoxDesign"
        THEN <<<<design.port.diameter_m, spec.port_diameter_pct,
                 Q(1, 1000000000), Q(1, 10000)>>,
               <<design.port.length_m, spec.port_length_pct,
                 Q(1, 1000000000), Q(1, 10000)>>>>
        ELSE <<>>)
    \o <<<<design.volume_l, spec.box_volume_pct, Q(1, 1000000000), Q(1, 1000)>>>>

\* the number of values the first i calls draw
DrawnBy(calls, i) == Cardinality({j \in 1..i : Draws(calls[j][1], calls[j][2])})

\* the result of call i when the generator is rng before the first call:
\* max(_vary(value, deviation, rng), floor)
Varied(calls, i, rng) ==
    LET value == _vary(calls[i][1], calls[i][2],
                       random(rng, DrawnBy(calls, i - 1)), calls[i][3])
    IN  IF value = None \/ calls[i][4] = R(0) THEN value
        ELSE AtLeast(value, calls[i][4])

\* _vary_driver
_vary_driver(driver, calls, rng) ==
    DriverParameters(Varied(calls, 1, rng), Varied(calls, 2, rng),
                     Varied(calls, 3, rng), Varied(calls, 4, rng),
                     Varied(calls, 5, rng), Varied(calls, 6, rng),
                     Varied(calls, 7, rng), Varied(calls, 8, rng), driver.xmax_mm)

\* _vary_box and _vary_vented_box
_vary_box(box, calls, rng) ==
    IF box.kind = "VentedBoxDesign"
    THEN VentedBoxDesign(Varied(calls, 11, rng),
                         PortGeometry(Varied(calls, 9, rng), Varied(calls, 10, rng),
                                      box.port.count, box.port.flare_factor,
                                      box.port.loss_q),
                         box.leakage_q)
    ELSE BoxDesign(Varied(calls, 9, rng), box.leakage_q)

\* _percentile of sorted values, not empty
_percentile(sorted_values, quantile) ==
    IF Len(sorted_values) = 1 THEN sorted_values[1]
    ELSE LET pos == FMul(R(Len(sorted_values) - 1), quantile)
             lower == Floor(pos)
             upper == Ceil(pos)
             weight == FSub(pos, R(lower))
         IN  IF lower = upper THEN sorted_values[lower + 1]
             ELSE FAdd(FMul(sorted_values[lower + 1], FSub(R(1), weight)),
                       FMul(sorted_values[upper + 1], weight))

\* statistics.pstdev
pstdev(data) ==
    LET mu == FDiv(SumSeq(data), R(Len(data)))
        squares == [k \in 1..Len(data) |-> FMul(FSub(data[k], mu), FSub(data[k], mu))]
    IN  Sqrt(FDiv(SumSeq(squares), R(Len(data))))

\* _collect_stat of values, not empty
_collect_stat(data) ==
    LET sorted_values == SortedSeq(data)
    IN  [mean |-> FDiv(SumSeq(data), R(Len(data))),
         stddev |-> pstdev(data),
         minimum |-> sorted_values[1],
         maximum |-> sorted_values[Len(sorted_values)],
         percentile_05 |-> _percentile(sorted_values, Q(5, 100)),
         percentile_95 |-> _percentile(sorted_values, Q(95, 100))]

\* the keys of a summary whose values are levels in dB or frequencies
MetricNames == {"max_spl_db", "excursion_headroom_db", "f3_low_hz", "f3_high_hz"}

\* record_metric over the summaries of the iterations: the values of a key
\* that are not None, in the order of the iterations
Recorded(summaries, name) ==
    LET Present(summary) == summary[name] # None
        kept == SelectSeq(summaries, Present)
    IN  [k \in 1..Len(kept) |-> kept[k][name]]

\* _summarise_metrics: a metric without a value has no statistics
_summarise_metrics(summaries) ==
    [name \in {m \in MetricNames : Recorded(summaries, m) # <<>>} |->
        _collect_stat(Recorded(summaries, name))]

\* _worst_case_delta
_worst_case_delta(baseline, summaries) ==
    LET spl_values == Recorded(summaries, "max_spl_db")
    IN  IF baseline.max_spl_db = None \/ spl_values = <<>> THEN None
        ELSE FSub(baseline.max_spl_db, MinFrom(spl_values, None))

\* the thresholds of _assess_risk
ExcursionHigh == Q(20, 100)
ExcursionModerate == Q(5, 100)
PortHigh == Q(18, 100)
PortModerate == Q(8, 100)
DeltaHigh == R(3)
DeltaModerate == Q(3, 2)

\* the checks of _assess_risk that flag, in order: the level flagged, the
\* message and the figure the message quotes
Flags(excursion_rate, port_velocity_rate, port_velocity_limit_ms, worst_case_delta_db) ==
    (IF FGe(excursion_rate, ExcursionHigh)
     THEN <<<<"high", "exceeded the excursion limit", excursion_rate>>>>
     ELSE IF FGe(excursion_rate, ExcursionModerate)
     THEN <<<<"moderate", "nudged past the excursion limit", excursion_rate>>>>
     ELSE <<>>)
    \o (IF port_velocity_rate = None \/ port_velocity_limit_ms = None THEN <<>>
        ELSE IF FGe(port_velocity_rate, PortHigh)
        THEN <<<<"high", "exceeded the port velocity limit", port_velocity_rate>>>>
        ELSE IF FGe(port_velocity_rate, PortModerate)
        THEN <<<<"moderate", "approached the port velocity ceiling", port_velocity_rate>>>>
        ELSE <<>>)
    \o (IF worst_case_delta_db = None THEN <<>>
        ELSE IF FGe(worst_case_delta_db, DeltaHigh)
        THEN <<<<"high", "worst-case SPL dropped", worst_case_delta_db>>>>
        ELSE IF FGe(worst_case_delta_db, DeltaModerate)
        THEN <<<<"moderate", "SPL varied", worst_case_delta_db>>>>
        ELSE <<>>)

AllWithinLimits == <<"low", "all monitored checks stayed within the limits", None>>

\* a variant of _assess_risk whose rating is the level flagged last
_assess_risk_last_flag(excursion_rate, port_velocity_rate, port_velocity_limit_ms, worst_case_delta_db) ==
    LET flags == Flags(excursion_rate, port_velocity_rate, port_velocity_limit_ms,
                       worst_case_delta_db)
    IN  [risk_rating |-> IF flags = <<>> THEN "low" ELSE flags[Len(flags)][1],
         risk_factors |-> IF flags = <<>> THEN <<AllWithinLimits>> ELSE flags]

\* _assess_risk: the rating is the highest level flagged
_assess_risk(excursion_rate, port_velocity_rate, port_velocity_limit_ms, worst_case_delta_db) ==
    LET flags == Flags(excursion_rate, port_velocity_rate, port_velocity_limit_ms,
                       worst_case_delta_db)
        flagged == {flags[k][1] : k \in 1..Len(flags)}
    IN  [risk_rating |-> IF "high" \in flagged THEN "high"
                         ELSE IF "moderate" \in flagged THEN "moderate"
                         ELSE "low",
         risk_factors |-> IF flags = <<>> THEN <<AllWithinLimits>> ELSE flags]

\* the summary of iteration k of a report's loop: the generator has served
\* k - 1 iterations before
IterationSummary(alignment, driver, design, frequencies_hz, spec, rng, k, drive_voltage, mic_distance_m) ==
    LET calls == Variations(driver, design, spec)
        before == [rng EXCEPT !.drawn = @ + (k - 1) * DrawnBy(calls, Len(calls))]
    IN  Only({alignment_summary(varied_solver,
                                frequency_response(varied_solver, frequencies_hz,
                                                   mic_distance_m)) :
              varied_solver \in
                  {Solver(alignment, _vary_driver(driver, calls, before),
                          _vary_box(design, calls, before), drive_voltage)}})

\* the summaries of the first k iterations
RECURSIVE Summaries(_, _, _, _, _, _)
Summaries(solver, frequencies_hz, spec, rng, k, mic_distance_m) ==
    IF k = 0 THEN <<>>
    ELSE Append(Summaries(solver, frequencies_hz, spec, rng, k - 1, mic_distance_m),
                IterationSummary(solver.kind, solver.driver, solver.box,
                                 frequencies_hz, spec, rng, k, solver.drive_voltage,
                                 mic_distance_m))

\* how many of the summaries exceed a limit
Failures(summaries, name, limit) ==
    Cardinality({k \in 1..Len(summaries) :
        /\ summaries[k][name] \notin {None, VZero}
        /\ FGt(summaries[k][name][2], limit[2])})

\* the ToleranceReport built from the summary of the baseline and those of
\* the iterations, with the generator as the loop leaves it
ToleranceReport(alignment, baseline, summaries, spec, rng, excursion_limit_ratio, port_velocity_limit_ms) ==
    LET iterations == Len(summaries)
        excursion_rate ==
            Q(Failures(summaries, "excursion_ratio", excursion_limit_ratio), iterations)
        port_rate ==
            IF alignment = "sealed" \/ port_velocity_limit_ms = None THEN None
            ELSE Q(Failures(summaries, "max_port_velocity_ms", port_velocity_limit_ms),
                   iterations)
        limit == IF alignment = "sealed" THEN None ELSE port_velocity_limit_ms
        worst_case_delta == _worst_case_delta(baseline, summaries)
    IN  [raised |-> "",
         alignment |-> alignment,
         runs |-> iterations,
         baseline_summary |-> baseline,
         metrics |-> _summarise_metrics(summaries),
         tolerances |-> spec,
         excursion_limit_ratio |-> excursion_limit_ratio,
         excursion_exceedance_rate |-> excursion_rate,
         port_velocity_limit_ms |-> limit,
         port_velocity_exceedance_rate |-> port_rate,
         worst_case_spl_delta_db |-> worst_case_delta,
         risk |-> _assess_risk(excursion_rate, port_rate, limit, worst_case_delta),
         solvers_built |-> 1 + iterations,
         rng |-> rng]

\* a call that raised: the exception, the solvers built before it and the
\* generator as the call leaves it
Failed(exception, solvers_built, rng) ==
    [raised |-> exception, solvers_built |-> solvers_built, rng |-> rng]

\* _sealed_report and _vented_report: the baseline, then the iterations
Report(solver, frequencies_hz, iterations, spec, rng, mic_distance_m, excursion_limit_ratio, port_velocity_limit_ms) ==
    IF Raised(solver) THEN Failed(solver.raised, 0, rng)
    ELSE Only({
        IF Raised(response) THEN Failed(response.raised, 1, rng)
        ELSE Only({
            ToleranceReport(solver.kind, baseline, summaries, spec,
                            [rng EXCEPT !.drawn = @ + iterations *
                                DrawnBy(Variations(solver.driver, solver.box, spec),
                                        Len(Variations(solver.driver, solver.box, spec)))],
                            excursion_limit_ratio, port_velocity_limit_ms) :
            baseline \in {alignment_summary(solver, response)},
            summaries \in {Summaries(solver, frequencies_hz, spec, rng, iterations,
                                      mic_distance_m)}}) :
        response \in {frequency_response(solver, frequencies_hz, mic_distance_m)}})

_sealed_report(driver, design, frequencies_hz, iterations, spec, rng, drive_voltage, mic_distance_m, excursion_limit_ratio) ==
    Report(SealedBoxSolver(driver, design, drive_voltage), frequencies_hz, iterations,
           spec, rng, mic_distance_m, excursion_limit_ratio, None)

_vented_report(driver, design, frequencies_hz, iterations, spec, rng, drive_voltage, mic_distance_m, excursion_limit_ratio, port_velocity_limit_ms) ==
    Report(VentedBoxSolver(driver, design, drive_voltage), frequencies_hz, iterations,
           spec, rng, mic_distance_m, excursion_limit_ratio, port_velocity_limit_ms)

\* a variant of the choice of the generator that always makes a new one
ResolveRng_fresh(rng, entropy) == Random(entropy)

\* rng = rng or Random(): a generator of the caller is kept, a new one is
\* seeded from the entropy of the system
ResolveRng(rng, entropy) == IF rng = None THEN Random(entropy) ELSE rng

\* a variant of isinstance for which a vented box is a box as well
isinstance_of_subclass(design, class) == class = "BoxDesign" \/ design.kind = class

\* isinstance(design, BoxDesign) and isinstance(design, VentedBoxDesign):
\* neither class derives from the other
isinstance(design, class) == design.kind = class

\* run_tolerance_analysis
run_tolerance_analysis(request, entropy) ==
    IF request.iterations <= 0 THEN Failed("ValueError", 0, request.rng)
    ELSE IF request.frequencies_hz = <<>> THEN Failed("ValueError", 0, request.rng)
    ELSE LET spec == IF request.tolerances = None THEN DEFAULT_TOLERANCES
                     ELSE request.tolerances
             rng == ResolveRng(request.rng, entropy)
         IN  IF request.alignment = "sealed"
             THEN IF ~isinstance(request.design, "BoxDesign")
                  THEN Failed("TypeError", 0, request.rng)
                  ELSE _sealed_report(request.driver, request.design, request.frequencies_hz,
                                      request.iterations, spec, rng, request.drive_voltage,
                                      request.mic_distance_m, request.excursion_limit_ratio)
             ELSE IF request.alignment = "vented"
             THEN IF ~isinstance(request.design, "VentedBoxDesign")
                  THEN Failed("TypeError", 0, request.rng)
                  ELSE _vented_report(request.driver, request.design, request.frequencies_hz,
                                      request.iterations, spec, rng, request.drive_voltage,
                                      request.mic_distance_m,
                                      request.excursion_limit_ratio,
                                      request.port_velocity_limit_ms)
             ELSE Failed("ValueError", 0, request.rng)

(***************************************************************************)
(* Fractional-octave smoothing.                                            *)
(***************************************************************************)
RECURSIVE IntPow2(_)
IntPow2(k) == IF k = 0 THEN 1 ELSE 2 * IntPow2(k - 1)

\* 2.0 ** x for x a multiple of 1/2: exact for a whole x, the square root
\* of 2 taken by Sqrt otherwise
Pow2(x) ==
    LET k == Floor(x)
        whole == IF k >= 0 THEN R(IntPow2(k)) ELSE Q(1, IntPow2(-k))
    IN  IF x = R(k) THEN whole ELSE FMul(whole, Sqrt(R(2)))

\* bisect_right on the sorted frequencies
bisect_right(freq, target) ==
    Cardinality({i \in 1..Len(freq) : FLe(R(freq[i]), target)})

\* a variant of the window that is left as narrow as the band makes it
Window_of_band(freq_sorted, idx, bandwidth, min_window) ==
    <<Cardinality({i \in 1..Len(freq_sorted) :
          FLt(R(freq_sorted[i]), FDiv(R(freq_sorted[idx + 1]), bandwidth))}),
      bisect_right(freq_sorted, FMul(R(freq_sorted[idx + 1]), bandwidth))>>

\* start and stop of the window of the sample at idx (counted from 0): the
\* band around the centre, or min_window samples around idx if the band
\* holds fewer
Window(freq_sorted, idx, bandwidth, min_window) ==
    LET count == Len(freq_sorted)
        centre == R(freq_sorted[idx + 1])
        start == Cardinality({i \in 1..count :
                     FLt(R(freq_sorted[i]), FDiv(centre, bandwidth))})
        stop == bisect_right(freq_sorted, FMul(centre, bandwidth))
        near == IF idx - (min_window \div 2) > 0 THEN idx - (min_window \div 2) ELSE 0
        stop_wide == IF near + min_window < count THEN near + min_window ELSE count
        start_wide == IF stop_wide - min_window > 0 THEN stop_wide - min_window ELSE 0
    IN  IF stop - start < min_window THEN <<start_wide, stop_wide>>
        ELSE <<start, stop>>

\* sum(window) / len(window), the window being values_sorted[start:stop] or
\* the sample itself
WindowMean(values_sorted, idx, bounds) ==
    IF bounds[2] <= bounds[1] THEN values_sorted[idx + 1]
    ELSE FDiv(SumSeq(SubSeq(values_sorted, bounds[1] + 1, bounds[2])),
              R(bounds[2] - bounds[1]))

\* _fractional_octave_smooth_series for series of the length of the axis
_fractional_octave_smooth_series(frequency_hz, values, fraction) ==
    IF FLe(fraction, R(0)) THEN values
    ELSE LET count == Len(frequency_hz)
             order == SortOrder(frequency_hz)
             freq_sorted == [k \in 1..count |-> frequency_hz[order[k]]]
             values_sorted == [k \in 1..count |-> values[order[k]]]
             bandwidth == Pow2(FDiv(R(1), FMul(R(2), fraction)))
             min_window == IF count < 3 THEN count ELSE 3
             Place(i) == CHOOSE k \in 1..count : order[k] = i
         IN  [i \in 1..count |->
                 WindowMean(values_sorted, Place(i) - 1,
                            Window(freq_sorted, Place(i) - 1, bandwidth, min_window))]

\* MeasurementTrace.fractional_octave_smooth
fractional_octave_smooth(self, fraction, fields) ==
    LET target_fields == IF fields = None \/ Val(fields) = <<>> THEN {"spl_db"}
                         ELSE {Val(fields)[k] : k \in 1..Len(Val(fields))}
        freq == self.frequency_hz
        _apply(series, field) ==
            IF series = None THEN None
            ELSE IF FLe(fraction, R(0)) \/ field \notin target_fields THEN series
            ELSE Some(_fractional_octave_smooth_series(freq, Val(series), fraction))
        Part(p) == Some([k \in 1..Len(freq) |-> Val(self.impedance_ohm)[k][p]])
        impedance ==
            IF self.impedance_ohm = None THEN None
            ELSE Some([k \in 1..Len(freq) |->
                          <<Val(_apply(Part(1), "impedance_ohm"))[k],
                            Val(_apply(Part(2), "impedance_ohm"))[k]>>])
    IN  MeasurementTrace(freq, _apply(self.spl_db, "spl_db"),
                         _apply(self.phase_deg, "phase_deg"), impedance,
                         _apply(self.thd_percent, "thd_percent"))

(***************************************************************************)
(* Input domains.                                                          *)
(***************************************************************************)
SplValues == {R(80), R(83), NaN}

SeqsUpTo(S, n) == UNION {[1..k -> S] : k \in 0..n}

\* an SPL series of n samples: the three-sample pattern, repeated
SplPatterns == [1..3 -> SplValues]

SplOf(pattern, n) == [i \in 1..n |-> pattern[((i - 1) % 3) + 1]]

\* the side channels of sample i of a trace that carries them; sample 2 has
\* an undecodable (NaN) phase
SidePhase(n) == [i \in 1..n |-> IF i = 2 THEN NaN ELSE R(10 * i)]

SideImpedance(n) == [i \in 1..n |-> <<R(4 + i), R(i - 2)>>]

SideThd(n) == [i \in 1..n |-> Q(i, 2)]

TracesOn(f, sides) ==
    {MeasurementTrace(f, s,
                      IF side THEN Some(SidePhase(Len(f))) ELSE None,
                      IF side THEN Some(SideImpedance(Len(f))) ELSE None,
                      IF side THEN Some(SideThd(Len(f))) ELSE None) :
        s \in {None} \cup {Some(SplOf(pat, Len(f))) : pat \in SplPatterns},
        side \in sides}

TracesWith(sides) == UNION {TracesOn(f, sides) : f \in SeqsUpTo(FreqValues, MaxLen)}

BandBounds == {None} \cup {<<h>> : h \in {20, 40, 50, 200}}

Idle == [op |-> "none"]

NoCall == [fn |-> "none"]

(***************************************************************************)
(* Trace transformations: a trace is ingested, then transformed once.      *)
(***************************************************************************)
Init ==
    /\ trace \in TracesWith(BOOLEAN)
    /\ call = NoCall
    /\ out = Idle

DoResample ==
    /\ out = Idle
    /\ out' = [op |-> "resample", axis |-> trace.frequency_hz,
               result |-> resample(trace, trace.frequency_hz)]
    /\ UNCHANGED <<trace, call>>

DoBandpass ==
    /\ out = Idle
    /\ \E lo \in BandBounds, hi \in BandBounds :
          out' = [op |-> "bandpass", lo |-> lo, hi |-> hi,
                  result |-> bandpass(trace, lo, hi)]
    /\ UNCHANGED <<trace, call>>

Next == DoResample \/ DoBandpass

Spec == Init /\ [][Next]_vars

(***************************************************************************)
(* Comparator: a measurement is ingested, then compared with a prediction: *)
(* the measurement itself, the measurement lowered by a uniform offset, or *)
(* a solver curve on its own axis.                                         *)
(***************************************************************************)
Offsets == {Q(-4, 5), Q(1, 2), Q(3, 5)}

OffsetBy(t, d) ==
    [t EXCEPT !.spl_db =
        IF IsNone(@) THEN None
        ELSE Some([i \in 1..Len(Val(@)) |-> FSub(Val(@)[i], d)])]

SolverCurve(f, s) == MeasurementTrace(f, Some(s), None, Some(SideImpedance(Len(f))), None)

SolverCurves == {SolverCurve(<<20, 50, 130>>, <<R(80), R(83), R(81)>>)}

Predictions(t) == {t} \cup {OffsetBy(t, d) : d \in Offsets} \cup SolverCurves

PortLengths == {None, R(0), Q(24, 100)}

InitCompare ==
    /\ trace \in TracesWith({TRUE})
    /\ call = NoCall
    /\ out = Idle

DoCompare ==
    /\ out = Idle
    /\ \E p \in Predictions(trace), port \in PortLengths :
          out' = [op |-> "compare", prediction |-> p, port_length_m |-> port,
                  result |-> compare_measurement_to_prediction(trace, p, port)]
    /\ UNCHANGED <<trace, call>>

NextCompare == DoCompare

SpecCompare == InitCompare /\ [][NextCompare]_vars

(***************************************************************************)
(* Calibration engine: a diagnosis and a prior are handed to               *)
(* derive_calibration_update and its result to                             *)
(* derive_calibration_overrides; or overrides of any content are applied   *)
(* to a drive voltage or to a box.                                         *)
(***************************************************************************)
NoTrace == MeasurementTrace(<<>>, None, None, None, None)

\* a MeasurementDiagnosis with the three fields the engine reads
Diagnosis(level_trim, port_scale, hint) ==
    [overall_bias_db |-> IF level_trim = None THEN None ELSE FNeg(level_trim),
     recommended_level_trim_db |-> level_trim,
     low_band_bias_db |-> None,
     mid_band_bias_db |-> None,
     high_band_bias_db |-> None,
     tuning_shift_hz |-> None,
     recommended_port_length_m |-> None,
     recommended_port_length_scale |-> port_scale,
     leakage_hint |-> hint,
     notes |-> OptNote(hint # "None", hint)]

\* the last two trims lie beyond the range of 10 ** (-trim / 20)
LevelTrims ==
    {None, NaN, PosInf, R(0), Q(1, 2), Q(-3, 2), R(2), Q(-365, 16), R(-8000), R(8000)}

PortScales == {None, Q(25, 169), R(1), R(4)}

LeakageHints == {"None", "lower_q", "raise_q"}

PriorMeans == {R(0), R(2), PosInf}

PriorVariances == {R(-1), R(0), Q(1, 100), Q(4, 100), R(4), PosInf, NaN}

\* a bundle that gives each parameter the same prior
UniformPrior(mean, variance) ==
    CalibrationPrior(ParameterPrior(mean, variance), ParameterPrior(mean, variance),
                     ParameterPrior(mean, variance))

\* the default bundle with another variance of the leakage scale
LeakagePrior(variance) ==
    CalibrationPrior(DefaultPrior.level_trim_db, DefaultPrior.port_length_scale,
                     ParameterPrior(R(1), variance))

Priors ==
    {None} \cup {UniformPrior(m, v) : m \in PriorMeans, v \in PriorVariances}
           \cup {LeakagePrior(v) : v \in PriorVariances}

UpdateCalls ==
    {[fn |-> "derive_calibration_update",
      diagnosis |-> Diagnosis(t, s, h), prior |-> p] :
        t \in LevelTrims, s \in PortScales, h \in LeakageHints, p \in Priors}

Voltages == {Level(R(9)), Level(R(-6000)), Level(R(6000))}

VoltageOverrides ==
    {None, VNaN, VInf, VNegInf, VZero, VNegative, Level(R(12)), Level(R(-3))}

VoltageScales ==
    {None, VNaN, VInf, VNegInf, VZero, VNegative, Level(R(3)), Level(R(-600)), Level(R(600))}

DriveCalls ==
    {[fn |-> "apply_calibration_overrides_to_drive_voltage",
      base_voltage_v |-> b, overrides |-> o] :
        b \in Voltages,
        o \in {None} \cup {CalibrationOverrides(s, v, None, None, None, None) :
                              s \in VoltageScales, v \in VoltageOverrides}}

Boxes ==
    {BoxDesign(R(55), R(15)),
     VentedBoxDesign(R(55), PortGeometry(Q(11, 100), Q(24, 100), 1, Q(16, 10), R(16)), R(10))}

OverrideValues == {None, NaN, PosInf, NegInf, R(0), R(-2), Q(1, 2), R(12)}

OverrideScales == {None, NaN, PosInf, R(0), R(-2), Q(1, 2), R(FloatMax), Q(1, FloatMax)}

BoxCalls ==
    {[fn |-> "apply_calibration_overrides_to_box", box |-> b, overrides |-> o] :
        b \in Boxes,
        o \in {None} \cup {CalibrationOverrides(None, None, ps, pl, ls, lq) :
                              ps \in OverrideScales, pl \in OverrideValues,
                              ls \in OverrideScales, lq \in OverrideValues}}

InitCalibration ==
    /\ trace = NoTrace
    /\ call \in UpdateCalls \cup DriveCalls \cup BoxCalls
    /\ out = Idle

DoDeriveUpdate ==
    /\ out = Idle
    /\ call.fn = "derive_calibration_update"
    /\ out' = [op |-> "derive_calibration_update",
               result |-> derive_calibration_update(call.diagnosis, call.prior)]
    /\ UNCHANGED <<trace, call>>

DoDeriveOverrides ==
    /\ out.op = "derive_calibration_update"
    /\ \E v \in {None, Level(R(9))}, box \in Boxes :
          out' = [op |-> "derive_calibration_overrides",
                  calibration |-> out.result,
                  drive_voltage_v |-> v,
                  box |-> box,
                  result |-> derive_calibration_overrides(
                                 out.result, v,
                                 IF box.kind = "VentedBoxDesign"
                                 THEN box.port.length_m ELSE None,
                                 box.leakage_q)]
    /\ UNCHANGED <<trace, call>>

DoApplyToDriveVoltage ==
    /\ out = Idle
    /\ call.fn = "apply_calibration_overrides_to_drive_voltage"
    /\ out' = [op |-> "apply_calibration_overrides_to_drive_voltage",
               result |-> apply_calibration_overrides_to_drive_voltage(
                              call.base_voltage_v, call.overrides)]
    /\ UNCHANGED <<trace, call>>

DoApplyToBox ==
    /\ out = Idle
    /\ call.fn = "apply_calibration_overrides_to_box"
    /\ LET applied == apply_calibration_overrides_to_box(call.box, call.overrides)
       IN  /\ out' = [op |-> "apply_calibration_overrides_to_box",
                      given |-> call.box,
                      same_object |-> applied.same_object,
                      same_port |-> applied.same_port,
                      result |-> applied.value]
           /\ call' = [call EXCEPT !.box = applied.box_after]
    /\ UNCHANGED trace

\* the overrides just derived for a box are applied to that box
DoApplyDerivedToBox ==
    /\ out.op = "derive_calibration_overrides"
    /\ out.result # Overflowed
    /\ \E applied \in {apply_calibration_overrides_to_box(out.box, out.result)} :
          out' = [op |-> "apply_derived_overrides_to_box",
                  calibration |-> out.calibration,
                  overrides |-> out.result,
                  given |-> out.box,
                  result |-> applied.value]
    /\ UNCHANGED <<trace, call>>

NextCalibration ==
    \/ DoDeriveUpdate
    \/ DoDeriveOverrides
    \/ DoApplyToDriveVoltage
    \/ DoApplyToBox
    \/ DoApplyDerivedToBox

SpecCalibration == InitCalibration /\ [][NextCalibration]_vars

(***************************************************************************)
(* Feedback loop: the gateway compares a measurement with the sealed       *)
(* solver's prediction on the measurement's axis, derives overrides and,   *)
(* when asked, solves and compares again with them.  The measurement is    *)
(* the prediction raised by a uniform offset.                              *)
(***************************************************************************)
\* the reference driver, and one with a weaker motor: 4.5 dB less at 1 V
LoopDrivers == {ReferenceDriver, [ReferenceDriver EXCEPT !.bl_t_m = R(5)]}

\* about 2.8 V; a voltage that leaves the 20 Hz and 130 Hz samples of the
\* reference driver on the SPL floor; a voltage that leaves every sample there
DriveVoltages == {Level(R(9)), Level(R(-315)), Level(R(-600))}

\* the last two offsets lead to trims beyond the range of 10 ** (-trim / 20)
LoopOffsets == {R(0), Q(1, 4), Q(3, 2), Q(-3, 2), Q(365, 16), R(8000), R(-8000)}

\* SealedBoxSolver(...).frequency_response(...) at 1 m, as a measurement
SealedPrediction(driver, box, drive_voltage, frequencies_hz) ==
    measurement_from_response(
        frequency_response(SealedBoxSolver(driver, box, drive_voltage),
                           frequencies_hz, Level(R(0))))

LoopCalls ==
    {[fn |-> "_sealed_measurement_payload", driver |-> g,
      box |-> BoxDesign(R(55), R(15)), drive_voltage |-> v, offset |-> d,
      apply_overrides |-> a] :
        g \in LoopDrivers, v \in DriveVoltages, d \in LoopOffsets, a \in BOOLEAN}

InitLoop ==
    /\ call \in LoopCalls
    /\ \E axis \in SeqsUpTo(FreqValues, MaxLen) :
          trace = OffsetBy(SealedPrediction(call.driver, call.box,
                                            call.drive_voltage, axis),
                           FNeg(call.offset))
    /\ out = Idle

\* _sealed_measurement_payload of the gateway, statement by statement, the
\* alignment summaries left out.
DoSealedMeasurement ==
    /\ out = Idle
    /\ \E predicted \in {SealedPrediction(call.driver, call.box,
                                         call.drive_voltage, trace.frequency_hz)} :
       \E compared \in {compare_measurement_to_prediction(trace, predicted, None)} :
          IF compared.raised # ""
          THEN out' = [op |-> "_sealed_measurement_payload",
                       result |-> [raised |-> compared.raised]]
          ELSE
       \E calibration \in {derive_calibration_update(compared.diagnosis, None)} :
       \E overrides \in {derive_calibration_overrides(
                             calibration, call.drive_voltage, None, call.box.leakage_q)} :
          IF Raised(overrides)
          THEN out' = [op |-> "_sealed_measurement_payload",
                       result |-> [raised |-> overrides.raised]]
          ELSE
       \E payload \in {[raised |-> "",
                        prediction |-> predicted,
                        delta |-> compared.delta,
                        stats |-> compared.stats,
                        diagnosis |-> compared.diagnosis,
                        calibration |-> calibration,
                        calibration_overrides |-> overrides,
                        calibrated |-> None]} :
          IF ~call.apply_overrides
          THEN out' = [op |-> "_sealed_measurement_payload", result |-> payload]
          ELSE
       \E calibrated_box \in {apply_calibration_overrides_to_box(call.box, overrides).value} :
       \E calibrated_drive \in {apply_calibration_overrides_to_drive_voltage(
                                    call.drive_voltage, overrides)} :
       \E calibrated_prediction \in {SealedPrediction(call.driver, calibrated_box,
                                         calibrated_drive, trace.frequency_hz)} :
       \E recompared \in {compare_measurement_to_prediction(
                              trace, calibrated_prediction, None)} :
          IF recompared.raised # ""
          THEN out' = [op |-> "_sealed_measurement_payload",
                       result |-> [raised |-> recompared.raised]]
          ELSE out' = [op |-> "_sealed_measurement_payload",
                       result |-> [payload EXCEPT !.calibrated =
                           [inputs |-> [drive_voltage_v |-> calibrated_drive,
                                        leakage_q |-> calibrated_box.leakage_q,
                                        port_length_m |-> None],
                            prediction |-> calibrated_prediction,
                            delta |-> recompared.delta,
                            stats |-> recompared.stats,
                            diagnosis |-> recompared.diagnosis]]]
    /\ UNCHANGED <<trace, call>>

NextLoop == DoSealedMeasurement

SpecLoop == InitLoop /\ [][NextLoop]_vars

(***************************************************************************)
(* Tolerance analysis: a call of run_tolerance_analysis and a second call  *)
(* with the same arguments, the caller's generator seeded as for the first *)
(* and the entropy of the system moved on; and calls of _assess_risk.      *)
(***************************************************************************)
MaxIterations == 3

\* the default tolerances; a loose motor and box; no tolerance at all
ToleranceSpecs ==
    {None,
     ToleranceSpec(R(0), R(0), R(0), R(0), Q(2, 5), R(0), R(0), R(0), Q(1, 4), Q(1, 10),
                   R(0)),
     ToleranceSpec(R(0), R(0), R(0), R(0), R(0), R(0), R(0), R(0), R(0), R(0), R(0))}

\* about 2.8 V; the voltage at which the reference driver reaches its
\* rated excursion at 20 Hz; no voltage
ToleranceVoltages == {Level(R(9)), Level(R(16)), VZero}

ToleranceDesigns ==
    {BoxDesign(ReferenceVolume, R(15)),
     VentedBoxDesign(ReferenceVolume, ReferencePort, R(15))}

ToleranceCalls ==
    {[fn |-> "run_tolerance_analysis", alignment |-> a, driver |-> ReferenceDriver,
      design |-> d, frequencies_hz |-> f, iterations |-> n, tolerances |-> t,
      rng |-> r, drive_voltage |-> v, mic_distance_m |-> m,
      excursion_limit_ratio |-> Level(R(0)), port_velocity_limit_ms |-> p] :
        a \in {"sealed", "vented", "ported"}, d \in ToleranceDesigns,
        f \in {<<>>, <<20, 50, 130>>, <<0, 50>>}, n \in (-1)..MaxIterations,
        t \in ToleranceSpecs, r \in {None, Random(1), Random(2)},
        v \in ToleranceVoltages, m \in {Level(R(0)), VZero},
        p \in {None, Level(R(28))}}

\* the reports hand over a port rate exactly when they have a port limit
RiskCalls ==
    {[fn |-> "_assess_risk", excursion_rate |-> e, port_velocity_rate |-> p,
      port_velocity_limit_ms |-> IF p = None THEN None ELSE Level(R(28)),
      worst_case_delta_db |-> d] :
        e \in {R(0), Q(1, 25), Q(1, 20), Q(1, 10), Q(1, 5), R(1)},
        p \in {None, R(0), Q(2, 25), Q(1, 10), Q(9, 50)},
        d \in {None, R(-1), R(0), Q(149, 100), Q(3, 2), R(3)}}

\* the seeds a generator made without a seed takes in the two calls
Entropies == {<<3, 6>>}

InitTolerance ==
    /\ call \in ToleranceCalls \cup RiskCalls
    /\ trace \in {[entropy |-> e] : e \in Entropies}
    /\ out = Idle

DoRunToleranceAnalysis ==
    /\ out = Idle
    /\ call.fn = "run_tolerance_analysis"
    /\ \E report \in {run_tolerance_analysis(call, trace.entropy[1])} :
          out' = [op |-> "run_tolerance_analysis", result |-> report, again |-> None]
    /\ UNCHANGED <<trace, call>>

DoRunToleranceAnalysisAgain ==
    /\ out # Idle
    /\ out.op = "run_tolerance_analysis"
    /\ out.again = None
    /\ \E report \in {run_tolerance_analysis(call, trace.entropy[2])} :
          out' = [out EXCEPT !.again = report]
    /\ UNCHANGED <<trace, call>>

DoAssessRisk ==
    /\ out = Idle
    /\ call.fn = "_assess_risk"
    /\ out' = [op |-> "_assess_risk",
               result |-> _assess_risk(call.excursion_rate, call.port_velocity_rate,
                                       call.port_velocity_limit_ms,
                                       call.worst_case_delta_db)]
    /\ UNCHANGED <<trace, call>>

NextTolerance == DoRunToleranceAnalysis \/ DoRunToleranceAnalysisAgain \/ DoAssessRisk

SpecTolerance == InitTolerance /\ [][NextTolerance]_vars

(***************************************************************************)
(* Solvers: a solver is constructed, asked for its frequency response and, *)
(* the sealed and the vented one, for the alignment summary of that        *)
(* response; and calls of find_band_edges.                                 *)
(***************************************************************************)
\* about 2.8 V; the voltage of rated excursion at 20 Hz; 100 V; none; -100 V
SolverVoltages == {Level(R(9)), Level(R(16)), Level(R(40)), VZero, NegLevel(R(40))}

\* 1 m, 0 m and -1 m
MicDistances == {Level(R(0)), VZero, NegLevel(R(0))}

\* no rated excursion, a rated excursion of 0 mm, one of about 8 mm
SolverDrivers == {[ReferenceDriver EXCEPT !.xmax_mm = x] : x \in {None, VZero, Level(R(18))}}

SolverCalls ==
    {[fn |-> "solver", kind |-> k, driver |-> d,
      box |-> IF k = "sealed" THEN BoxDesign(ReferenceVolume, R(15))
              ELSE VentedBoxDesign(ReferenceVolume, ReferencePort, R(15)),
      drive_voltage |-> v,
      grid_resolution |-> IF k = "hybrid" THEN g ELSE 24,
      frequencies_hz |-> f, mic_distance_m |-> m] :
        k \in {"sealed", "vented", "hybrid"}, d \in SolverDrivers,
        v \in SolverVoltages, g \in {4, 24},
        f \in SeqsUpTo(FreqValues \cup {0, -20}, MaxLen), m \in MicDistances}

\* the magnitudes of a curve, in dB
EdgeValues == {R(74), R(77), R(80), R(83)}

\* frequencies in any order, none twice
UniqueSeqs(S, n) ==
    {f \in SeqsUpTo(S, n) : \A i, j \in 1..Len(f) : f[i] = f[j] => i = j}

EdgeCalls ==
    {[fn |-> "find_band_edges", frequencies |-> f, values |-> v, drop_db |-> R(3)] :
        f \in UniqueSeqs(FreqValues, MaxLen), v \in SeqsUpTo(EdgeValues, MaxLen)}

InitSolver ==
    /\ call \in SolverCalls \cup EdgeCalls
    /\ trace = NoTrace
    /\ out = Idle

\* SealedBoxSolver(...), VentedBoxSolver(...), HybridBoxSolver(...)
DoConstruct ==
    /\ out = Idle
    /\ call.fn = "solver"
    /\ out' = [op |-> "__init__",
               solver |-> IF call.kind = "sealed"
                          THEN SealedBoxSolver(call.driver, call.box, call.drive_voltage)
                          ELSE IF call.kind = "vented"
                          THEN VentedBoxSolver(call.driver, call.box, call.drive_voltage)
                          ELSE HybridBoxSolver(call.driver, call.box, call.drive_voltage,
                                               call.grid_resolution),
               response |-> None, summary |-> None]
    /\ UNCHANGED <<trace, call>>

DoFrequencyResponse ==
    /\ out # Idle
    /\ out.op = "__init__"
    /\ ~Raised(out.solver)
    /\ out' = [out EXCEPT !.op = "frequency_response",
                          !.response = frequency_response(out.solver, call.frequencies_hz,
                                                          call.mic_distance_m)]
    /\ UNCHANGED <<trace, call>>

DoAlignmentSummary ==
    /\ out # Idle
    /\ out.op = "frequency_response"
    /\ out.solver.kind \in {"sealed", "vented"}
    /\ ~Raised(out.response)
    /\ out' = [out EXCEPT !.op = "alignment_summary",
                          !.summary = alignment_summary(out.solver, out.response)]
    /\ UNCHANGED <<trace, call>>

DoFindBandEdges ==
    /\ out = Idle
    /\ call.fn = "find_band_edges"
    /\ out' = [op |-> "find_band_edges",
               result |-> find_band_edges(call.frequencies, call.values, call.drop_db)]
    /\ UNCHANGED <<trace, call>>

NextSolver == DoConstruct \/ DoFrequencyResponse \/ DoAlignmentSummary \/ DoFindBandEdges

SpecSolver == InitSolver /\ [][NextSolver]_vars

(***************************************************************************)
(* Smoothing: a trace is smoothed once.                                    *)
(***************************************************************************)
SmoothLen == 5

\* 20, 25, 40, 50, 80, 100, ... Hz: four samples in two octaves
Grid(k) == IntPow2((k - 1) \div 2) * (IF k % 2 = 1 THEN 20 ELSE 25)

\* an axis of n samples: ascending, descending, or starting at the second
SmoothAxes(n) ==
    {[k \in 1..n |-> Grid(k)], [k \in 1..n |-> Grid(n + 1 - k)],
     [k \in 1..n |-> Grid((k % n) + 1)]}

SmoothSpl == {R(79), R(80), R(82)}

SmoothTraces ==
    UNION {{MeasurementTrace(f, Some(s), None, Some(SideImpedance(n)), None) :
               f \in SmoothAxes(n), s \in [1..n -> SmoothSpl]} : n \in 0..SmoothLen}

\* 1/N octave for N = 1, 1/2 and 1/4 (bands of half an octave, one octave
\* and two octaves to each side), and the fractions that switch it off
SmoothCalls ==
    {[fn |-> "fractional_octave_smooth", fraction |-> n, fields |-> f] :
        n \in {R(1), Q(1, 2), Q(1, 4), R(0), R(-1)},
        f \in {None, Some(<<"spl_db", "impedance_ohm">>)}}

InitSmooth ==
    /\ trace \in SmoothTraces
    /\ call \in SmoothCalls
    /\ out = Idle

DoSmooth ==
    /\ out = Idle
    /\ out' = [op |-> "fractional_octave_smooth",
               result |-> fractional_octave_smooth(trace, call.fraction, call.fields)]
    /\ UNCHANGED <<trace, call>>

NextSmooth == DoSmooth

SpecSmooth == InitSmooth /\ [][NextSmooth]_vars

(***************************************************************************)
(* Optional channels: a trace whose four channels are present or absent    *)
(* independently is resampled, band-limited, smoothed, or compared with a  *)
(* prediction whose channels are present or absent independently.          *)
(***************************************************************************)
ChannelAxes == {<<50>>, <<20, 50, 130>>, <<130, 20>>}

ChannelTrace(f, present) ==
    MeasurementTrace(f,
        IF "spl_db" \in present THEN Some(SplOf(<<R(80), R(83), NaN>>, Len(f))) ELSE None,
        IF "phase_deg" \in present THEN Some(SidePhase(Len(f))) ELSE None,
        IF "impedance_ohm" \in present THEN Some(SideImpedance(Len(f))) ELSE None,
        IF "thd_percent" \in present THEN Some(SideThd(Len(f))) ELSE None)

ChannelTraces ==
    {ChannelTrace(f, present) :
        f \in ChannelAxes,
        present \in SUBSET {"spl_db", "phase_deg", "impedance_ohm", "thd_percent"}}

InitChannels ==
    /\ trace \in ChannelTraces
    /\ call = NoCall
    /\ out = Idle

DoResampleOnto ==
    /\ out = Idle
    /\ \E axis \in ChannelAxes :
          out' = [op |-> "resample", axis |-> axis, result |-> resample(trace, axis)]
    /\ UNCHANGED <<trace, call>>

DoSmoothChannels ==
    /\ out = Idle
    /\ \E c \in SmoothCalls :
          out' = [op |-> "fractional_octave_smooth", fraction |-> c.fraction,
                  fields |-> c.fields,
                  result |-> fractional_octave_smooth(trace, c.fraction, c.fields)]
    /\ UNCHANGED <<trace, call>>

DoCompareChannels ==
    /\ out = Idle
    /\ \E p \in ChannelTraces :
          out' = [op |-> "compare", prediction |-> p, port_length_m |-> None,
                  result |-> compare_measurement_to_prediction(trace, p, None)]
    /\ UNCHANGED <<trace, call>>

NextChannels == DoResampleOnto \/ DoBandpass \/ DoSmoothChannels \/ DoCompareChannels

SpecChannels == InitChannels /\ [][NextChannels]_vars

(***************************************************************************)
(* Diagnosis: _diagnose_bias is applied to a three-sample comparison on an *)
(* axis given in tenths of a hertz (20.0, 20.6, 20.8, 50.0, 130.0 Hz).     *)
(***************************************************************************)
DiagnoseAxes ==
    {<<200, 206, 500>>, <<200, 208, 500>>, <<200, 500, 1300>>, <<1300, 206, 200>>}

DiagnoseCalls ==
    {[fn |-> "_diagnose_bias", unit |-> 10, frequency |-> f,
      measurement_spl |-> m, predicted_spl |-> p, port_length_m |-> port] :
        f \in DiagnoseAxes,
        m \in [1..3 -> {R(80), R(83)}],
        p \in [1..3 -> {R(80), R(82), R(83)}],
        port \in {None, Q(24, 100)}}

InitDiagnose ==
    /\ trace = NoTrace
    /\ call \in DiagnoseCalls
    /\ out = Idle

DoDiagnose ==
    /\ out = Idle
    /\ \E delta \in {_difference_series(Some(call.measurement_spl), Some(call.predicted_spl))} :
          out' = [op |-> "diagnose", spl_delta |-> delta,
                  result |-> [raised |-> "",
                              diagnosis |-> _diagnose_bias_at(call.unit, call.frequency, delta,
                                                Some(call.measurement_spl),
                                                Some(call.predicted_spl),
                                                call.port_length_m)]]
    /\ UNCHANGED <<trace, call>>

NextDiagnose == DoDiagnose

SpecDiagnose == InitDiagnose /\ [][NextDiagnose]_vars

(***************************************************************************)
(* Perturbation: one Monte Carlo iteration perturbs a driver and a box,    *)
(* the generator having made any number of draws before.                   *)
(***************************************************************************)
\* the reference driver; a driver whose Qts and Re lie below the floor of
\* 0.001, without inductance, Vas and rated excursion
VaryDrivers ==
    {ReferenceDriver,
     DriverParameters(R(30), Q(1, 2000), Q(1, 2000), R(10), Q(1, 20), Q(1, 20), R(0),
                      None, None)}

\* the default tolerances; a loose motor and box; tolerances of 200% on Fs
\* and Le
VarySpecs ==
    {DEFAULT_TOLERANCES,
     ToleranceSpec(R(0), R(0), R(0), R(0), Q(2, 5), R(0), R(0), R(0), Q(1, 4), Q(1, 10),
                   R(0)),
     ToleranceSpec(R(2), Q(20, 100), Q(10, 100), Q(5, 100), Q(5, 100), Q(5, 100),
                   Q(2, 100), R(2), Q(5, 100), Q(6, 100), Q(8, 100))}

VaryCalls ==
    {[fn |-> "_vary_driver", driver |-> d, design |-> b, tolerances |-> t,
      rng |-> [seed |-> s, drawn |-> n]] :
        d \in VaryDrivers, b \in ToleranceDesigns, t \in VarySpecs,
        s \in 0..3, n \in 0..3}

InitVary ==
    /\ trace = NoTrace
    /\ call \in VaryCalls
    /\ out = Idle

\* varied_driver = _vary_driver(...); varied_box = _vary_box(...) or
\* _vary_vented_box(...): neither assigns to the driver or the box given
DoVary ==
    /\ out = Idle
    /\ \E calls \in {Variations(call.driver, call.design, call.tolerances)} :
          out' = [op |-> "vary",
                  driver |-> _vary_driver(call.driver, calls, call.rng),
                  box |-> _vary_box(call.design, calls, call.rng),
                  given_driver |-> call.driver,
                  given_box |-> call.design]
    /\ UNCHANGED <<trace, call>>

NextVary == DoVary

SpecVary == InitVary /\ [][NextVary]_vars

(***************************************************************************)
(* Serialisation: to_dict of a trace, of the delta of a comparison and of  *)
(* a posterior parameter.  A payload is a function from keys to values.    *)
(***************************************************************************)
EmptyPayload == [key \in {} |-> None]

\* payload[key] = value, made only when the condition holds
Entry(made, key, value) == IF made THEN key :> value ELSE EmptyPayload

\* [float(z.real) for z in series] and [float(z.imag) for z in series]
RealParts(series) == [i \in 1..Len(series) |-> series[i][1]]

ImagParts(series) == [i \in 1..Len(series) |-> series[i][2]]

\* list(series) of a series that is not None
Listed(opt) == IF IsNone(opt) THEN None ELSE Val(opt)

\* MeasurementTrace.to_dict
MeasurementTrace_to_dict(self) ==
    ("frequency_hz" :> self.frequency_hz)
        @@ Entry(~IsNone(self.spl_db), "spl_db", Listed(self.spl_db))
        @@ Entry(~IsNone(self.phase_deg), "phase_deg", Listed(self.phase_deg))
        @@ Entry(~IsNone(self.impedance_ohm), "impedance_real",
                 IF IsNone(self.impedance_ohm) THEN None
                 ELSE RealParts(Val(self.impedance_ohm)))
        @@ Entry(~IsNone(self.impedance_ohm), "impedance_imag",
                 IF IsNone(self.impedance_ohm) THEN None
                 ELSE ImagParts(Val(self.impedance_ohm)))
        @@ Entry(~IsNone(self.thd_percent), "thd_percent", Listed(self.thd_percent))

\* MeasurementDelta.to_dict
MeasurementDelta_to_dict(self) ==
    ("frequency_hz" :> self.frequency_hz)
        @@ Entry(~IsNone(self.spl_delta_db), "spl_delta_db", Listed(self.spl_delta_db))
        @@ Entry(~IsNone(self.phase_delta_deg), "phase_delta_deg",
                 Listed(self.phase_delta_deg))
        @@ Entry(~IsNone(self.impedance_delta_ohm), "impedance_delta_ohm",
                 Listed(self.impedance_delta_ohm))
        @@ Entry(~IsNone(self.thd_delta_percent), "thd_delta_percent",
                 Listed(self.thd_delta_percent))

\* CalibrationParameter.to_dict
CalibrationParameter_to_dict(self) ==
    [mean |-> self.mean, variance |-> self.variance, prior_mean |-> self.prior_mean,
     prior_variance |-> self.prior_variance, update_weight |-> self.update_weight]
        @@ Entry(self.observation # None, "observation", self.observation)
        @@ Entry(self.observation_variance # None, "observation_variance",
                 self.observation_variance)
        @@ Entry(self.credible_interval # None, "credible_interval",
                 IF self.credible_interval = None THEN None
                 ELSE [lower |-> self.credible_interval[1],
                       upper |-> self.credible_interval[2],
                       confidence |-> self.credible_interval[3]])
        @@ ("stddev" :> IF FGt(self.variance, R(0)) THEN Sqrt(self.variance) ELSE R(0))

InitSerialise ==
    /\ trace \in ChannelTraces
    /\ call = NoCall
    /\ out = Idle

DoTraceToDict ==
    /\ out = Idle
    /\ out' = [op |-> "to_dict", of |-> "MeasurementTrace", entity |-> trace,
               payload |-> MeasurementTrace_to_dict(trace)]
    /\ UNCHANGED <<trace, call>>

\* compare_measurement_to_prediction(...).delta.to_dict()
DoDeltaToDict ==
    /\ out = Idle
    /\ \E p \in ChannelTraces :
          \E compared \in {compare_measurement_to_prediction(trace, p, None)} :
             /\ compared.raised = ""
             /\ out' = [op |-> "to_dict", of |-> "MeasurementDelta",
                        entity |-> compared.delta,
                        payload |-> MeasurementDelta_to_dict(compared.delta)]
    /\ UNCHANGED <<trace, call>>

\* derive_calibration_update(...).leakage_q_scale.to_dict()
DoParameterToDict ==
    /\ out = Idle
    /\ \E hint \in {"lower_q", "raise_q"}, variance \in {R(0), Q(9, 100), PosInf} :
          \E parameter \in {_update_leakage_scale(Diagnosis(None, None, hint),
                                                  ParameterPrior(R(1), variance))} :
             out' = [op |-> "to_dict", of |-> "CalibrationParameter",
                     entity |-> parameter,
                     payload |-> CalibrationParameter_to_dict(parameter)]
    /\ UNCHANGED <<trace, call>>

NextSerialise == DoTraceToDict \/ DoDeltaToDict \/ DoParameterToDict

SpecSerialise == InitSerialise /\ [][NextSerialise]_vars

(***************************************************************************)
(* Hybrid solver, port compression: the solver evaluates its frequencies   *)
(* one after the other and reports, for the raw port velocity of each, the *)
(* port velocity and the compression ratio of the snapshot.                *)
(***************************************************************************)
\* number of frequencies the solver evaluates
MaxSnapshots == 2

\* self._port_threshold, in m/s
_port_threshold == R(17)

\* the slope of the law above the threshold: 0.35 * excess
PortCompressionSlope == Q(35, 100)

\* a variant of _apply_port_compression that scales the whole velocity, not
\* the excess over the threshold
_apply_port_compression_of_all(velocity) ==
    IF FLe(velocity, R(0)) THEN <<None, None>>
    ELSE IF FLe(velocity, _port_threshold) THEN <<velocity, R(1)>>
    ELSE LET compressed == FMul(PortCompressionSlope, velocity)
         IN  <<compressed, FDiv(compressed, velocity)>>

\* _apply_port_compression: <<port velocity, compression ratio>>
_apply_port_compression(velocity) ==
    IF FLe(velocity, R(0)) THEN <<None, None>>
    ELSE IF FLe(velocity, _port_threshold) THEN <<velocity, R(1)>>
    ELSE LET excess == FSub(velocity, _port_threshold)
             compressed == FAdd(_port_threshold, FMul(PortCompressionSlope, excess))
         IN  <<compressed, FDiv(compressed, velocity)>>

\* raw port velocities, in m/s: abs(port_volume_velocity) / port_area
RawVelocities ==
    {R(0), Q(1, 1000), Q(1, 2), R(6), R(15), Q(169, 10), R(17), Q(1701, 100),
     Q(171, 10), R(18), R(20), R(34), R(50), R(100), R(1000)}

InitPort ==
    /\ trace = NoTrace
    /\ call = NoCall
    /\ out = [op |-> "hybrid", snapshots |-> <<>>]

\* port_velocity, compression = self._apply_port_compression(raw_velocity),
\* stored in the snapshot of the frequency
DoPortVelocity ==
    /\ out.op = "hybrid"
    /\ Len(out.snapshots) < MaxSnapshots
    /\ \E raw_velocity \in RawVelocities :
          \E reported \in {_apply_port_compression(raw_velocity)} :
             out' = [op |-> "hybrid",
                     snapshots |-> Append(out.snapshots,
                                          [raw_velocity |-> raw_velocity,
                                           port_velocity_ms |-> reported[1],
                                           port_compression_ratio |-> reported[2]])]
    /\ UNCHANGED <<trace, call>>

NextPort == DoPortVelocity

SpecPort == InitPort /\ [][NextPort]_vars

(***************************************************************************)
(* Run store of the gateway.  A value of Python or of a column is None     *)
(* (NULL) or Some(v); a dict is the set of its items; the table runs is a  *)
(* function from the ids of its rows to the rows.                          *)
(***************************************************************************)
VALID_STATUSES == {"queued", "running", "succeeded", "failed"}

\* the results a run is completed with
Results == {{}, {<<"loss", 0>>}}

\* the messages a run is failed with: str(exc) of an exception raised
\* without arguments is empty
Errors == {"", "boom"}

\* uuid.uuid4().hex: the ids that remain to be drawn
RunIds == {"a"}

\* json.dumps(result) and json.loads(text) of the results
json_dumps(result) == IF result = {} THEN "{}" ELSE "{\"loss\": 0}"

json_loads(text) == IF text = "{}" THEN {} ELSE {<<"loss", 0>>}

\* the truth value of a column: neither NULL nor the empty text
Truthy(column) == ~IsNone(column) /\ Val(column) # ""

\* RunRecord, without the times and the parameters
RunRecord(id, status, result, error) ==
    [id |-> id, status |-> status, result |-> result, error |-> error]

\* RunStore._row_to_record
_row_to_record(id, row) ==
    RunRecord(id, row.status,
              IF Truthy(row.result) THEN Some(json_loads(Val(row.result))) ELSE None,
              IF Truthy(row.error) THEN row.error ELSE None)

\* RunStore.get_run
get_run(rows, run_id) ==
    IF run_id \notin DOMAIN rows THEN None ELSE _row_to_record(run_id, rows[run_id])

\* the row the INSERT of create_run adds
Inserted(rows, run_id) ==
    (run_id :> [status |-> "queued", result |-> None, error |-> None]) @@ rows

\* a variant of _update_status whose UPDATE leaves the status column alone
_update_status_of_nothing(rows, run_id, status, result, error) ==
    LET result_json == IF IsNone(result) THEN None ELSE Some(json_dumps(Val(result)))
    IN  IF run_id \notin DOMAIN rows THEN [rows |-> rows, raised |-> "KeyError"]
        ELSE [rows |-> [rows EXCEPT ![run_id] =
                           [status |-> @.status, result |-> result_json,
                            error |-> error]],
              raised |-> ""]

\* RunStore._update_status, the lock being held: the UPDATE writes the three
\* columns of the row at once, and rowcount == 0 raises KeyError
_update_status(rows, run_id, status, result, error) ==
    LET result_json == IF IsNone(result) THEN None ELSE Some(json_dumps(Val(result)))
    IN  IF run_id \notin DOMAIN rows THEN [rows |-> rows, raised |-> "KeyError"]
        ELSE [rows |-> [rows EXCEPT ![run_id] =
                           [status |-> status, result |-> result_json, error |-> error]],
              raised |-> ""]

\* mark_running, complete_run and mark_failed as calls of _update_status
StoreCall(fn, run_id, result, error) ==
    [fn |-> fn, run_id |-> run_id,
     status |-> IF fn = "mark_running" THEN "running"
                ELSE IF fn = "complete_run" THEN "succeeded"
                ELSE IF fn = "mark_failed" THEN "failed"
                ELSE "queued",
     result |-> result, error |-> error]

StoreCalls ==
    {StoreCall("mark_running", id, None, None) : id \in RunIds}
        \cup {StoreCall("complete_run", id, Some(r), None) : id \in RunIds, r \in Results}
        \cup {StoreCall("mark_failed", id, None, Some(e)) : id \in RunIds, e \in Errors}

(***************************************************************************)
(* Concurrent callers of one store: a caller prepares a call, waits for    *)
(* self._lock, executes its statement and releases the lock; get_run reads *)
(* without the lock.  written is what the last statement applied to an id  *)
(* was called with.                                                        *)
(***************************************************************************)
Callers == {1, 2}

NoStoreCall == StoreCall("none", "", None, None)

Resting == [pc |-> "idle", raised |-> "", todo |-> NoStoreCall]

InitStore ==
    /\ trace = NoTrace
    /\ call = [c \in Callers |-> Resting]
    /\ out = [op |-> "store", rows |-> <<>>, lock |-> 0, written |-> <<>>,
              fetched |-> None]

\* the part of a call before 'with self._lock'; create_run has drawn its id
DoCall ==
    /\ out.op = "store"
    /\ \E c \in Callers :
          /\ call[c].pc = "idle"
          /\ \E s \in StoreCalls \cup {StoreCall("create_run", id, None, None) :
                        id \in RunIds \ DOMAIN out.rows} :
                /\ s.fn = "create_run"
                      => \A d \in Callers : call[d].todo # s
                /\ call' = [call EXCEPT ![c] = [pc |-> "waiting", raised |-> "", todo |-> s]]
    /\ UNCHANGED <<trace, out>>

\* with self._lock
DoAcquire ==
    /\ out.op = "store"
    /\ out.lock = 0
    /\ \E c \in Callers :
          /\ call[c].pc = "waiting"
          /\ call' = [call EXCEPT ![c].pc = "locked"]
          /\ out' = [out EXCEPT !.lock = c]
    /\ UNCHANGED trace

\* conn.execute(INSERT ...) or conn.execute(UPDATE ...), the rowcount check
\* and the release of the lock
DoExecute ==
    /\ out.op = "store"
    /\ \E c \in Callers :
          /\ call[c].pc = "locked"
          /\ out.lock = c
          /\ \E s \in {call[c].todo} :
                \E done \in {IF s.fn = "create_run"
                             THEN [rows |-> Inserted(out.rows, s.run_id), raised |-> ""]
                             ELSE _update_status(out.rows, s.run_id, s.status,
                                                 s.result, s.error)} :
                   /\ out' = [out EXCEPT
                                 !.rows = done.rows,
                                 !.lock = 0,
                                 !.written =
                                     IF done.raised = ""
                                     THEN (s.run_id :> <<s.status, s.result, s.error>>) @@ @
                                     ELSE @]
                   /\ call' = [call EXCEPT ![c] = [pc |-> "idle", raised |-> done.raised,
                                                   todo |-> NoStoreCall]]
    /\ UNCHANGED trace

\* get_run(run_id) by a caller that is not inside another call
DoGetRun ==
    /\ out.op = "store"
    /\ \E c \in Callers, run_id \in RunIds :
          /\ call[c].pc = "idle"
          /\ out' = [out EXCEPT
                        !.fetched = [run_id |-> run_id,
                                     record |-> get_run(out.rows, run_id),
                                     written |-> IF run_id \in DOMAIN out.written
                                                 THEN out.written[run_id] ELSE None]]
    /\ UNCHANGED <<trace, call>>

NextStore == DoCall \/ DoAcquire \/ DoExecute \/ DoGetRun

SpecStore == InitStore /\ [][NextStore]_vars

(***************************************************************************)
(* Optimisation runs of the gateway: start_optimisation creates a run and  *)
(* schedules _run_optimisation_task for it; the tasks of different runs    *)
(* run concurrently, each statement of the store being executed under the  *)
(* lock.  call[id] is the position of the task of run id.                  *)
(***************************************************************************)
TaskRunIds == {"a", "b"}

NotStarted == [pc |-> "none", result |-> None, exc |-> None]

InitTask ==
    /\ trace = NoTrace
    /\ call = [id \in TaskRunIds |-> NotStarted]
    /\ out = [op |-> "gateway", rows |-> <<>>]

\* start_optimisation: record = _store.create_run(params);
\* background.add_task(_run_optimisation_task, record.id, params)
start_optimisation(id) ==
    /\ out.op = "gateway"
    /\ call[id].pc = "none"
    /\ id \notin DOMAIN out.rows
    /\ out' = [out EXCEPT !.rows = Inserted(out.rows, id)]
    /\ call' = [call EXCEPT ![id].pc = "scheduled"]
    /\ UNCHANGED trace

\* _store.mark_running(run_id)
TaskMarkRunning(id) ==
    /\ out.op = "gateway"
    /\ call[id].pc = "scheduled"
    /\ \E done \in {_update_status(out.rows, id, "running", None, None)} :
          /\ out' = [out EXCEPT !.rows = done.rows]
          /\ call' = [call EXCEPT ![id] =
                         IF done.raised = "" THEN [@ EXCEPT !.pc = "running"]
                         ELSE [@ EXCEPT !.pc = "except", !.exc = Some(done.raised)]]
    /\ UNCHANGED trace

\* result = _build_optimisation_result(params): returns a result or raises
TaskBuild(id) ==
    /\ out.op = "gateway"
    /\ call[id].pc = "running"
    /\ \/ \E r \in Results :
             call' = [call EXCEPT ![id] = [@ EXCEPT !.pc = "built", !.result = Some(r)]]
       \/ \E e \in Errors :
             call' = [call EXCEPT ![id] = [@ EXCEPT !.pc = "except", !.exc = Some(e)]]
    /\ UNCHANGED <<trace, out>>

\* _store.complete_run(run_id, result)
TaskComplete(id) ==
    /\ out.op = "gateway"
    /\ call[id].pc = "built"
    /\ \E done \in {_update_status(out.rows, id, "succeeded", call[id].result, None)} :
          /\ out' = [out EXCEPT !.rows = done.rows]
          /\ call' = [call EXCEPT ![id] =
                         IF done.raised = "" THEN [@ EXCEPT !.pc = "returned"]
                         ELSE [@ EXCEPT !.pc = "except", !.exc = Some(done.raised)]]
    /\ UNCHANGED trace

\* except Exception as exc: _store.mark_failed(run_id, str(exc))
TaskFail(id) ==
    /\ out.op = "gateway"
    /\ call[id].pc = "except"
    /\ \E done \in {_update_status(out.rows, id, "failed", None, call[id].exc)} :
          /\ out' = [out EXCEPT !.rows = done.rows]
          /\ call' = [call EXCEPT ![id].pc =
                         IF done.raised = "" THEN "returned" ELSE "raised"]
    /\ UNCHANGED trace

\* _run_optimisation_task, one step at a time
_run_optimisation_task(id) ==
    TaskMarkRunning(id) \/ TaskBuild(id) \/ TaskComplete(id) \/ TaskFail(id)

NextTask ==
    \E id \in TaskRunIds : start_optimisation(id) \/ _run_optimisation_task(id)

SpecTask == InitTask /\ [][NextTask]_vars

\* a scheduled background task is run, and a running one is not starved
SpecTaskFair ==
    SpecTask /\ \A id \in TaskRunIds : WF_vars(_run_optimisation_task(id))

(***************************************************************************)
(* Vocabulary of the properties.                                           *)
(***************************************************************************)
HasNaN(series) == \E i \in 1..Len(series) : IsNaN(series[i])

Channels == {"spl_db", "phase_deg", "impedance_ohm", "thd_percent"}

Compared == out.op = "compare" /\ out.result.raised = ""

InBand(f, lo, hi) == (lo = None \/ lo[1] <= f) /\ (hi = None \/ f <= hi[1])

KeptSet(t, lo, hi) == {i \in 1..Len(t.frequency_hz) : InBand(t.frequency_hz[i], lo, hi)}

\* the k-th smallest member of a set of indices
NthOf(S, k) == CHOOSE i \in S : Cardinality({j \in S : j < i}) = k - 1

\* series, restricted to the indices of S, in their original order
Restricted(series, S) == [k \in 1..Cardinality(S) |-> series[NthOf(S, k)]]

KeepsExactly(t, S, r) ==
    /\ r.frequency_hz = Restricted(t.frequency_hz, S)
    /\ \A ch \in Channels :
          IF IsNone(t[ch]) THEN IsNone(r[ch])
          ELSE ~IsNone(r[ch]) /\ Val(r[ch]) = Restricted(Val(t[ch]), S)

BoundsOrdered(lo, hi) == lo = None \/ hi = None \/ lo[1] <= hi[1]

(***************************************************************************)
(* C2: for every non-empty trace T, whatever the order or multiplicity of  *)
(* its frequency samples, T.resample(T.frequency_hz) returns a trace whose *)
(* frequency axis and every present channel are value-identical to T,      *)
(* sample by sample.                                                       *)
(***************************************************************************)
C2_ResampleOnOwnAxisIsIdentity ==
    (out.op = "resample" /\ trace.frequency_hz # <<>>)
        => /\ out.result.raised = ""
           /\ out.result.value = trace

(***************************************************************************)
(* C3, as stated: for bounds lo <= hi (either may be None), T.bandpass     *)
(* keeps exactly the samples with lo <= f <= hi, in the original order and *)
(* every present channel sliced at the same indices, and raises ValueError *)
(* when no sample of T lies in the band.                                   *)
(***************************************************************************)
C3_BandpassAsStated ==
    (out.op = "bandpass" /\ BoundsOrdered(out.lo, out.hi))
        => LET kept == KeptSet(trace, out.lo, out.hi)
           IN  IF kept = {} THEN out.result.raised = "ValueError"
               ELSE /\ out.result.raised = ""
                    /\ KeepsExactly(trace, kept, out.result.value)

(***************************************************************************)
(* C3, amended: the same, except that with both bounds None bandpass       *)
(* returns T itself and never raises, even when T has no sample; the       *)
(* ValueError for an empty band is raised when at least one bound is given.*)
(***************************************************************************)
C3_Bandpass ==
    (out.op = "bandpass" /\ BoundsOrdered(out.lo, out.hi))
        => LET kept == KeptSet(trace, out.lo, out.hi)
           IN  IF out.lo = None /\ out.hi = None
               THEN /\ out.result.raised = ""
                    /\ out.result.same_object
                    /\ out.result.value = trace
                    /\ KeepsExactly(trace, kept, out.result.value)
               ELSE IF kept = {} THEN out.result.raised = "ValueError"
               ELSE /\ out.result.raised = ""
                    /\ KeepsExactly(trace, kept, out.result.value)

\* an unsorted trace with all channels, cut by two bounds that both coincide
\* with a sample and drop another one
C3_Witness ==
    /\ out.op = "bandpass"
    /\ out.lo = <<20>> /\ out.hi = <<50>>
    /\ trace.frequency_hz = <<50, 130, 20>>
    /\ ~IsNone(trace.spl_db) /\ ~IsNone(trace.impedance_ohm)
    /\ out.result.raised = ""
    /\ out.result.value.frequency_hz = <<50, 20>>

(***************************************************************************)
(* Comparator properties.                                                  *)
(***************************************************************************)
\* every frequency of the axis carries one value of the series
SingleValued(freq, series) ==
    \A i, j \in 1..Len(freq) : freq[i] = freq[j] => series[i] = series[j]

ValuesOf(series) == {series[i] : i \in 1..Len(series)}

\* the prediction as the comparator sees it: on the measurement's axis
PredictedSpl == resample(out.prediction, trace.frequency_hz).value.spl_db

IdentityCompared == Compared /\ out.prediction = trace /\ ~IsNone(trace.spl_db)

ZeroEverywhere(series) == \A i \in 1..Len(series) : series[i] = R(0)

ZeroErrors ==
    /\ ~IsNone(out.result.delta.spl_delta_db)
    /\ ZeroEverywhere(Val(out.result.delta.spl_delta_db))
    /\ out.result.stats.spl_rmse_db = R(0)
    /\ out.result.stats.spl_mae_db = R(0)
    /\ out.result.stats.spl_bias_db = R(0)
    /\ out.result.diagnosis.overall_bias_db = R(0)
    /\ out.result.diagnosis.notes = <<>>

MeanOfValid(series) ==
    LET valid == {i \in 1..Len(series) : ~IsNaN(series[i])}
    IN  IF valid = {} THEN None
        ELSE FDiv(SumSeq(Restricted(series, valid)), R(Cardinality(valid)))

HasNote(note) == \E i \in 1..Len(out.result.diagnosis.notes) :
                     out.result.diagnosis.notes[i] = note

\* the measurement lies d above the prediction at every sample
UniformlyOffsetBy(d) ==
    /\ out.prediction = OffsetBy(trace, d)
    /\ ~IsNone(trace.spl_db)
    /\ ~HasNaN(Val(trace.spl_db))
    /\ SingleValued(trace.frequency_hz, Val(trace.spl_db))

(***************************************************************************)
(* C4: in every comparison with an SPL channel on both sides the diagnosis *)
(* reports overall_bias_db = the mean of the non-NaN SPL deltas            *)
(* (measurement minus prediction) and recommended_level_trim_db = its      *)
(* exact negation; for a measurement uniformly offset by d from the        *)
(* prediction the bias is d, the trim is -d, and a level note is present   *)
(* exactly when |d| > 0.5 dB.                                              *)
(***************************************************************************)
C4_BiasAndTrim ==
    (Compared /\ ~IsNone(trace.spl_db) /\ ~IsNone(out.prediction.spl_db))
        => LET deltas == [i \in 1..Len(trace.frequency_hz) |->
                             FSub(Val(trace.spl_db)[i], Val(PredictedSpl)[i])]
               bias == MeanOfValid(deltas)
               diagnosis == out.result.diagnosis
           IN  /\ out.result.delta.spl_delta_db = Some(deltas)
               /\ diagnosis.overall_bias_db = bias
               /\ diagnosis.recommended_level_trim_db =
                     (IF bias = None THEN None ELSE FNeg(bias))
               /\ \A d \in Offsets :
                     UniformlyOffsetBy(d)
                        => /\ diagnosis.overall_bias_db = d
                           /\ diagnosis.recommended_level_trim_db = FNeg(d)
                           /\ HasNote("level") <=> FGt(FAbs(d), Q(1, 2))

\* an offset of 0.6 dB on a trace with a NaN-free varying SPL: bias 0.6,
\* trim -0.6 and a level note
C4_Witness ==
    /\ Compared
    /\ UniformlyOffsetBy(Q(3, 5))
    /\ Len(trace.frequency_hz) = 3
    /\ Cardinality(ValuesOf(Val(trace.spl_db))) = 2
    /\ out.result.diagnosis.overall_bias_db = Q(3, 5)
    /\ out.result.diagnosis.recommended_level_trim_db = Q(-3, 5)
    /\ HasNote("level")

\* the frequency of the first sample that no non-NaN sample exceeds; None for
\* an absent channel or one without a non-NaN sample
PeakOf(freq, channel) ==
    IF IsNone(channel) THEN None
    ELSE LET series == Val(channel)
             valid == {i \in 1..Len(series) : ~IsNaN(series[i])}
             top == {i \in valid : \A j \in valid : FGe(series[i], series[j])}
         IN  IF valid = {} THEN None ELSE R(freq[NthOf(top, 1)])

PositivePort(port) == port # None /\ FGt(port, R(0))

(***************************************************************************)
(* C5: when the measured and the predicted SPL both have a peak at a       *)
(* positive frequency, tuning_shift_hz = measured peak - predicted peak;   *)
(* with a positive port_length_m in addition, the recommended scale is     *)
(* (predicted peak / measured peak)^2 and the recommended length is        *)
(* port_length_m * scale, so the shift is > 0 exactly when the scale is    *)
(* < 1 and < 0 exactly when the scale is > 1; without a port length both   *)
(* port recommendations are None.                                          *)
(***************************************************************************)
C5_TuningShiftAndPort ==
    LET measured == PeakOf(trace.frequency_hz, trace.spl_db)
        predicted == PeakOf(trace.frequency_hz, PredictedSpl)
        diagnosis == out.result.diagnosis
        port == out.port_length_m
    IN  (/\ Compared
         /\ measured # None /\ predicted # None
         /\ FGt(measured, R(0)) /\ FGt(predicted, R(0)))
            => /\ diagnosis.tuning_shift_hz = FSub(measured, predicted)
               /\ IF PositivePort(port)
                  THEN LET scale == FMul(FDiv(predicted, measured),
                                         FDiv(predicted, measured))
                       IN  /\ diagnosis.recommended_port_length_scale = scale
                           /\ diagnosis.recommended_port_length_m = FMul(port, scale)
                           /\ FGt(diagnosis.tuning_shift_hz, R(0))
                                 <=> FLt(diagnosis.recommended_port_length_scale, R(1))
                           /\ FLt(diagnosis.tuning_shift_hz, R(0))
                                 <=> FGt(diagnosis.recommended_port_length_scale, R(1))
                  ELSE /\ diagnosis.recommended_port_length_scale = None
                       /\ diagnosis.recommended_port_length_m = None

\* the measured peak (130 Hz) lies above the solver curve's peak (50 Hz) and
\* the port is 0.24 m long: a shorter port is recommended
C5_Witness ==
    /\ Compared
    /\ out.prediction \in SolverCurves
    /\ out.port_length_m = Q(24, 100)
    /\ trace.frequency_hz = <<20, 50, 130>>
    /\ out.result.diagnosis.tuning_shift_hz = R(80)
    /\ out.result.diagnosis.recommended_port_length_scale = Q(25, 169)
    /\ out.result.diagnosis.recommended_port_length_m = Q(6, 169)

(***************************************************************************)
(* Calibration properties.                                                 *)
(***************************************************************************)
Derived == out.op = "derive_calibration_update"

GivenPrior == IF call.prior = None THEN DefaultPrior ELSE call.prior

\* the parameters of the update at hand, each with the prior it was given
\* and the observation variance fixed for it
Posteriors ==
    {x \in {[parameter |-> out.result.level_trim_db,
             prior |-> GivenPrior.level_trim_db,
             observation_variance |-> _LEVEL_OBS_VARIANCE],
            [parameter |-> out.result.port_length_scale,
             prior |-> GivenPrior.port_length_scale,
             observation_variance |-> _PORT_SCALE_OBS_VARIANCE],
            [parameter |-> out.result.leakage_q_scale,
             prior |-> GivenPrior.leakage_q_scale,
             observation_variance |-> _LEAKAGE_OBS_VARIANCE]} :
        x.parameter # None}

Precision(variance) == FDiv(R(1), variance)

Between(x, a, b) == (FLe(a, x) /\ FLe(x, b)) \/ (FLe(b, x) /\ FLe(x, a))

GaussianPosterior(x) ==
    LET posterior == x.parameter
        prior_precision == Precision(x.prior.variance)
        observation_precision == Precision(x.observation_variance)
        total == FAdd(prior_precision, observation_precision)
    IN  /\ Precision(posterior.variance) = total
        /\ posterior.mean =
              FDiv(FAdd(FMul(prior_precision, x.prior.mean),
                        FMul(observation_precision, posterior.observation)),
                   total)
        /\ Between(posterior.mean, x.prior.mean, posterior.observation)
        /\ FLt(posterior.variance, x.prior.variance)
        /\ FLt(posterior.variance, x.observation_variance)

UnitWeight(w) == FLe(R(0), w) /\ FLe(w, R(1))

IntervalOpen(parameter) ==
    /\ parameter.credible_interval # None
    /\ FLt(parameter.credible_interval[1], parameter.credible_interval[2])

Suggested(value, scale) == IF value # None THEN value ELSE scale

\* missing, non-finite or non-positive
Unusable(x) == x = None \/ ~IsFinite(x) \/ FLe(x, R(0))

UnusableVoltage(v) == v = None \/ v[1] # "dB"

PositiveFinite(x) == IsFinite(x) /\ FGt(x, R(0))

AppliedToDrive == out.op = "apply_calibration_overrides_to_drive_voltage"

AppliedToBox == out.op = "apply_calibration_overrides_to_box"

(***************************************************************************)
(* C8: for any positive finite baseline and any overrides (each field      *)
(* None, NaN, infinite, zero, negative or positive), the drive voltage     *)
(* returned is positive and finite and so are the leakage Q and the        *)
(* (vented) port length of the box returned; the value returned is the     *)
(* baseline whenever the suggestion for it (the absolute value, or the     *)
(* scale when no absolute value is given) is missing, non-finite or        *)
(* non-positive.                                                           *)
(***************************************************************************)
C8_OverridesStayPhysical ==
    /\ AppliedToDrive
          => /\ out.result[1] = "dB"
             /\ (call.overrides = None
                 \/ UnusableVoltage(Suggested(call.overrides.drive_voltage_v,
                                              call.overrides.drive_voltage_scale)))
                   => out.result = call.base_voltage_v
    /\ AppliedToBox
          => /\ PositiveFinite(out.result.leakage_q)
             /\ (call.overrides = None
                 \/ Unusable(Suggested(call.overrides.leakage_q,
                                       call.overrides.leakage_q_scale)))
                   => out.result.leakage_q = out.given.leakage_q
             /\ out.given.kind = "VentedBoxDesign"
                   => /\ PositiveFinite(out.result.port.length_m)
                      /\ (call.overrides = None
                          \/ Unusable(Suggested(call.overrides.port_length_m,
                                                call.overrides.port_length_scale)))
                            => out.result.port.length_m = out.given.port.length_m

\* a scale of +600 dB on a baseline of +6000 dB: the product overflows and
\* the baseline is kept
C8_Witness ==
    /\ AppliedToDrive
    /\ call.base_voltage_v = Level(R(6000))
    /\ call.overrides # None
    /\ call.overrides.drive_voltage_v = None
    /\ call.overrides.drive_voltage_scale = Level(R(600))
    /\ out.result = Level(R(6000))

(***************************************************************************)
(* C9: apply_calibration_overrides_to_box never modifies the box or the    *)
(* PortGeometry passed to it, and for every overrides argument (None       *)
(* included) returns a new box object independent of the input, in which   *)
(* volume, port diameter, port count, flare factor and port loss Q are     *)
(* copied unchanged and only leakage Q and (vented) port length may differ.*)
(***************************************************************************)
C9_BoxIsCopied ==
    AppliedToBox
        => /\ call.box = out.given
           /\ ~out.same_object
           /\ out.result.kind = out.given.kind
           /\ out.result.volume_l = out.given.volume_l
           /\ out.given.kind = "VentedBoxDesign"
                 => /\ ~out.same_port
                    /\ out.result.port.diameter_m = out.given.port.diameter_m
                    /\ out.result.port.count = out.given.port.count
                    /\ out.result.port.flare_factor = out.given.port.flare_factor
                    /\ out.result.port.loss_q = out.given.port.loss_q

(***************************************************************************)
(* Feedback-loop properties.                                               *)
(***************************************************************************)
\* the loop was run on a measurement of at least one sample offset by d # 0
LoopClosed ==
    /\ out.op = "_sealed_measurement_payload"
    /\ trace.frequency_hz # <<>>
    /\ call.apply_overrides
    /\ call.offset # R(0)

\* the calibrated drive voltage moved with the sign of the offset
VoltageFollowsOffset ==
    LET calibrated == out.result.calibrated.inputs.drive_voltage_v
    IN  /\ calibrated[1] = "dB"
        /\ calibrated # call.drive_voltage
        /\ FGt(call.offset, R(0)) => FGt(calibrated[2], call.drive_voltage[2])
        /\ FLt(call.offset, R(0)) => FLt(calibrated[2], call.drive_voltage[2])

BiasReduced ==
    /\ out.result.stats.spl_bias_db = call.offset
    /\ FLt(FAbs(out.result.calibrated.stats.spl_bias_db), FAbs(call.offset))

AboveFloorSomewhere ==
    \E i \in 1..Len(Val(out.result.prediction.spl_db)) :
        FGt(Val(out.result.prediction.spl_db)[i], SplFloor)

\* the level of the voltage scale the offset leads to under the default
\* prior, 20 * log10 of 10 ** (-trim / 20)
ScaleLevel ==
    FNeg(_gaussian_update(DefaultPrior.level_trim_db.mean,
                          DefaultPrior.level_trim_db.variance,
                          FNeg(call.offset), _LEVEL_OBS_VARIANCE)[1])

InFloatRange(db) == FGe(db, R(FloatMinDb)) /\ FLe(db, R(FloatMaxDb))

\* the voltage scale and the scaled drive voltage are positive finite floats
ScaleRepresentable ==
    /\ InFloatRange(ScaleLevel)
    /\ InFloatRange(FAdd(call.drive_voltage[2], ScaleLevel))

(***************************************************************************)
(* C10, as stated: for a measurement equal to the solver prediction plus a *)
(* uniform non-zero offset d, compare -> derive_calibration_update ->      *)
(* derive_calibration_overrides -> apply to the drive voltage -> re-solve  *)
(* -> compare yields a calibrated drive voltage different from the         *)
(* baseline (higher when d > 0, lower when d < 0) and a calibrated SPL     *)
(* bias of strictly smaller magnitude than d.                              *)
(***************************************************************************)
C10_LoopReducesLevelErrorAsStated ==
    LoopClosed => /\ out.result.raised = ""
                  /\ VoltageFollowsOffset
                  /\ BiasReduced

(***************************************************************************)
(* C10, amended: when the voltage scale 10 ** (-trim / 20) and the scaled  *)
(* drive voltage are positive finite floats, the calibrated drive voltage  *)
(* differs from the baseline as stated, and the calibrated SPL bias is of  *)
(* strictly smaller magnitude than d provided the baseline prediction lies *)
(* above the solver's -240 dB SPL floor in at least one sample.            *)
(***************************************************************************)
C10_LoopReducesLevelError ==
    LoopClosed /\ ScaleRepresentable
        => /\ out.result.raised = ""
           /\ VoltageFollowsOffset
           /\ AboveFloorSomewhere => BiasReduced

\* an offset of 22.8125 dB at about 2.8 V: the trim posterior is -20 dB, the
\* voltage is raised by 20 dB and the bias falls to 2.8125 dB
C10_Witness ==
    /\ LoopClosed
    /\ ScaleRepresentable
    /\ call.offset = Q(365, 16)
    /\ call.drive_voltage = Level(R(9))
    /\ trace.frequency_hz = <<20, 50, 130>>
    /\ out.result.calibration.level_trim_db.mean = R(-20)
    /\ out.result.calibrated.inputs.drive_voltage_v = Level(R(29))
    /\ out.result.calibrated.stats.spl_bias_db = Q(45, 16)

(***************************************************************************)
(* Missing observations.                                                   *)
(***************************************************************************)
Missing(observation) == observation = None \/ IsNaN(observation)

NoHint == call.diagnosis.leakage_hint \notin {"lower_q", "raise_q"}

Noted(label) == \E i \in 1..Len(out.result.notes) : out.result.notes[i] = label

OverridesDerived == out.op = "derive_calibration_overrides"

\* what C11 says of the update and, once derive_calibration_overrides has
\* returned, of the overrides
MissingStaysMissing ==
    /\ Derived =>
          /\ Missing(call.diagnosis.recommended_level_trim_db) =>
                out.result.level_trim_db = None /\ ~Noted("Level trim")
          /\ Missing(call.diagnosis.recommended_port_length_scale) =>
                out.result.port_length_scale = None /\ ~Noted("Port scale")
          /\ NoHint =>
                out.result.leakage_q_scale = None /\ ~Noted("Leakage Q")
    /\ OverridesDerived /\ ~Raised(out.result) =>
          /\ Missing(call.diagnosis.recommended_level_trim_db) =>
                /\ out.result.drive_voltage_scale = None
                /\ out.result.drive_voltage_v = None
          /\ Missing(call.diagnosis.recommended_port_length_scale) =>
                /\ out.result.port_length_scale = None
                /\ out.result.port_length_m = None
          /\ NoHint =>
                /\ out.result.leakage_q_scale = None
                /\ out.result.leakage_q = None

SomethingMissing ==
    \/ Missing(call.diagnosis.recommended_level_trim_db)
    \/ Missing(call.diagnosis.recommended_port_length_scale)
    \/ NoHint

(***************************************************************************)
(* C11, as stated: when the diagnosis carries no observation for a         *)
(* parameter (the recommended level trim or port length scale is None or   *)
(* NaN, the leakage hint is neither lower_q nor raise_q),                  *)
(* derive_calibration_update returns None for that parameter and adds no   *)
(* note for it, and derive_calibration_overrides then returns None for the *)
(* scale and for the absolute value of that parameter.                     *)
(***************************************************************************)
C11_MissingObservationStaysMissingAsStated ==
    /\ MissingStaysMissing
    /\ OverridesDerived /\ SomethingMissing => ~Raised(out.result)

(***************************************************************************)
(* C11, where derive_calibration_overrides returns: the update is as       *)
(* stated, and the overrides returned hold None for the scale and for the  *)
(* absolute value of every parameter without an observation.               *)
(***************************************************************************)
C11_MissingObservationStaysMissing == MissingStaysMissing

\* a NaN level trim beside a usable port scale, projected on a vented box
\* at a given drive voltage: only the port gets overrides
C11_Witness ==
    /\ OverridesDerived
    /\ IsNaN(call.diagnosis.recommended_level_trim_db)
    /\ call.diagnosis.recommended_port_length_scale = R(4)
    /\ NoHint
    /\ out.drive_voltage_v # None
    /\ out.box.kind = "VentedBoxDesign"
    /\ out.calibration.level_trim_db = None
    /\ out.calibration.port_length_scale # None
    /\ ~Raised(out.result)
    /\ out.result.drive_voltage_v = None
    /\ out.result.port_length_m # None
    /\ out.result.leakage_q = None

(***************************************************************************)
(* C12.  Two calls of run_tolerance_analysis with the same arguments, each *)
(* given a generator seeded with the same seed, agree: both raise the same *)
(* exception or both return reports with the same metric statistics,       *)
(* exceedance rates, worst-case SPL delta, risk rating and risk factors.   *)
(***************************************************************************)
RanTwice ==
    /\ out # Idle
    /\ out.op = "run_tolerance_analysis"
    /\ out.again # None

SameStatistics(first, second) ==
    /\ first.raised = second.raised
    /\ first.raised = "" =>
          /\ first.metrics = second.metrics
          /\ first.excursion_exceedance_rate = second.excursion_exceedance_rate
          /\ first.port_velocity_exceedance_rate = second.port_velocity_exceedance_rate
          /\ first.worst_case_spl_delta_db = second.worst_case_spl_delta_db
          /\ first.risk = second.risk

C12_SameSeedSameReport ==
    (RanTwice /\ call.rng # None) => SameStatistics(out.result, out.again)

\* two reports of three iterations whose samples differ from each other
C12_Witness ==
    /\ RanTwice
    /\ call.rng = Random(2)
    /\ call.tolerances = None
    /\ call.iterations = 3
    /\ out.result.raised = ""
    /\ out.result.rng.drawn = 27
    /\ FGt(out.result.metrics["max_spl_db"].stddev, R(0))
    /\ out.again.metrics = out.result.metrics

(***************************************************************************)
(* C13.  The risk rating is "high" exactly when the excursion rate is at   *)
(* least 20%, the port velocity rate at least 18% or the worst-case delta  *)
(* at least 3.0 dB; otherwise "moderate" exactly when one of them is at    *)
(* least 5%, 8% or 1.5 dB; otherwise "low".  risk_factors holds one entry  *)
(* per triggered check, or the single all-within-limits note when no check *)
(* triggered, and then the rating is "low".  Stated of the calls of        *)
(* _assess_risk and of the assessment inside every report.                 *)
(***************************************************************************)
Assessed ==
    /\ out # Idle
    /\ out.op = "_assess_risk" \/ (out.op = "run_tolerance_analysis" /\ out.result.raised = "")

\* the figures assessed and the assessment made of them
Assessment ==
    IF out.op = "_assess_risk"
    THEN [excursion |-> call.excursion_rate, port |-> call.port_velocity_rate,
          delta |-> call.worst_case_delta_db, risk |-> out.result]
    ELSE [excursion |-> out.result.excursion_exceedance_rate,
          port |-> out.result.port_velocity_exceedance_rate,
          delta |-> out.result.worst_case_spl_delta_db, risk |-> out.result.risk]

Reaches(figure, percent) == figure # None /\ figure[1] * 100 >= percent * figure[2]

\* the checks that reach their upper, and their lower, threshold
ChecksAt(excursion, port, delta) ==
    {c \in {"excursion", "port", "delta"} :
        \/ c = "excursion" /\ Reaches(Assessment.excursion, excursion)
        \/ c = "port" /\ Reaches(Assessment.port, port)
        \/ c = "delta" /\ Reaches(Assessment.delta, delta)}

C13_RiskRating ==
    Assessed =>
        LET high == ChecksAt(20, 18, 300)
            triggered == ChecksAt(5, 8, 150)
            risk == Assessment.risk
        IN  /\ risk.risk_rating = "high" <=> high # {}
            /\ risk.risk_rating = "moderate" <=> (high = {} /\ triggered # {})
            /\ risk.risk_rating = "low" <=> triggered = {}
            /\ risk.risk_factors # <<>>
            /\ triggered # {} => Len(risk.risk_factors) = Cardinality(triggered)
            /\ triggered = {} => risk.risk_factors = <<AllWithinLimits>>

\* a vented report rated high on three counts
C13_Witness ==
    /\ Assessed
    /\ out.op = "run_tolerance_analysis"
    /\ Assessment.risk.risk_rating = "high"
    /\ Len(Assessment.risk.risk_factors) = 3
    /\ ChecksAt(20, 18, 300) # ChecksAt(5, 8, 150)

(***************************************************************************)
(* C14.  run_tolerance_analysis raises ValueError for iterations <= 0, for *)
(* an empty frequency list and for an alignment other than "sealed" and    *)
(* "vented", and TypeError for a design that is not of the alignment's     *)
(* type; in each of these cases no solver has been built, no value has     *)
(* been drawn from the caller's generator and no report is returned.       *)
(***************************************************************************)
Ran == out # Idle /\ out.op = "run_tolerance_analysis"

\* the exception the arguments call for, "" if none
Rejection ==
    IF call.iterations <= 0 \/ call.frequencies_hz = <<>> THEN "ValueError"
    ELSE IF call.alignment \notin {"sealed", "vented"} THEN "ValueError"
    ELSE IF call.alignment = "sealed" /\ call.design.kind = "VentedBoxDesign"
    THEN "TypeError"
    ELSE IF call.alignment = "vented" /\ call.design.kind = "BoxDesign"
    THEN "TypeError"
    ELSE ""

C14_RejectsAtTheBoundary ==
    (Ran /\ Rejection # "") =>
        /\ out.result.raised = Rejection
        /\ out.result.solvers_built = 0
        /\ out.result.rng = call.rng
        /\ DOMAIN out.result = {"raised", "solvers_built", "rng"}

\* a vented box handed to the sealed analysis, with a seeded generator
C14_Witness ==
    /\ Ran
    /\ call.alignment = "sealed"
    /\ call.design.kind = "VentedBoxDesign"
    /\ call.iterations = MaxIterations
    /\ call.frequencies_hz # <<>>
    /\ call.rng = Random(1)
    /\ out.result.raised = "TypeError"
    /\ out.result.rng.drawn = 0

(***************************************************************************)
(* C15.  Every solver (sealed, vented, hybrid) rejects a drive voltage     *)
(* that is not positive and a microphone distance that is not positive     *)
(* with ValueError, before it computes a sample: its constructor or its    *)
(* frequency_response raises, and no response exists for such arguments.   *)
(* The sealed solver checks neither.                                       *)
(***************************************************************************)
Constructed == out # Idle /\ out.op \in {"__init__", "frequency_response", "alignment_summary"}

Responded == Constructed /\ out.op # "__init__"

\* the constructor or frequency_response raised ValueError
Rejected ==
    \/ out.solver.raised = "ValueError"
    \/ Responded /\ out.response.raised = "ValueError"

C15_SolversRejectNonPositiveAsStated ==
    /\ (Constructed /\ NonPositive(call.drive_voltage)) => Rejected
    /\ (Responded /\ NonPositive(call.mic_distance_m)) => Rejected

\* the statement for the vented and the hybrid solver
C15_VentedAndHybridReject ==
    call.fn = "solver" /\ call.kind # "sealed" =>
        /\ (Constructed /\ NonPositive(call.drive_voltage)) =>
              out.solver.raised = "ValueError"
        /\ (Responded /\ NonPositive(call.mic_distance_m)) =>
              out.response = [raised |-> "ValueError"]

\* a sealed solver without a voltage, 0 m from the microphone, answers for
\* a list without a positive frequency; at -1 m it answers for any list
C15_SealedAnswers ==
    /\ Responded
    /\ call.kind = "sealed"
    /\ call.drive_voltage = VZero
    /\ call.mic_distance_m = NegLevel(R(0))
    /\ out.response.raised = ""
    /\ Len(out.response.spl_db) = 3

(***************************************************************************)
(* C16.  frequency_response of the sealed and of the vented solver skips   *)
(* every frequency <= 0 without raising: frequency_hz of the response is   *)
(* the positive frequencies of the input in the order of the input, and    *)
(* the SPL, impedance, cone velocity, cone displacement and (vented) port  *)
(* velocity sequences have its length.  Stated for a positive microphone   *)
(* distance.                                                               *)
(***************************************************************************)
RECURSIVE PositiveOf(_)
PositiveOf(frequencies) ==
    IF frequencies = <<>> THEN <<>>
    ELSE IF Head(frequencies) > 0 THEN <<Head(frequencies)>> \o PositiveOf(Tail(frequencies))
    ELSE PositiveOf(Tail(frequencies))

SealedOrVentedResponded ==
    /\ Responded
    /\ out.solver.kind \in {"sealed", "vented"}
    /\ ~NonPositive(call.mic_distance_m)

\* the lengths of the per-frequency sequences of a response
Lengths(response, kind) ==
    {Len(response.spl_db), Len(response.impedance_ohm), Len(response.cone_velocity_ms),
     Len(response.cone_displacement_m)}
    \cup (IF kind = "vented" THEN {Len(response.port_air_velocity_ms)} ELSE {})

EdgesFound == out # Idle /\ out.op = "find_band_edges"

ValidCurve == Len(call.frequencies) = Len(call.values) /\ call.frequencies # <<>>

\* the curve sorted by frequency
CurveFreqs == [k \in 1..Len(call.frequencies) |-> R(call.frequencies[SortOrder(call.frequencies)[k]])]
CurveMags == [k \in 1..Len(call.frequencies) |-> call.values[SortOrder(call.frequencies)[k]]]

CurvePeak ==
    CHOOSE i \in 1..Len(CurveMags) :
        /\ \A j \in 1..Len(CurveMags) : FLe(CurveMags[j], CurveMags[i])
        /\ \A j \in 1..(i - 1) : FLt(CurveMags[j], CurveMags[i])

CurveThreshold == FSub(CurveMags[CurvePeak], call.drop_db)

\* the samples of a side of the peak that are at or below the threshold
Below(side) ==
    {j \in 1..Len(CurveMags) :
        /\ FLe(CurveMags[j], CurveThreshold)
        /\ IF side = "low" THEN j < CurvePeak ELSE j > CurvePeak}

\* edge lies between samples j and k, where the line through them is at
\* the threshold
OnTheLine(edge, j, k) ==
    /\ FLe(CurveFreqs[IF j < k THEN j ELSE k], edge)
    /\ FLe(edge, CurveFreqs[IF j < k THEN k ELSE j])
    /\ FMul(FSub(CurveThreshold, CurveMags[j]), FSub(CurveFreqs[k], CurveFreqs[j]))
           = FMul(FSub(CurveMags[k], CurveMags[j]), FSub(edge, CurveFreqs[j]))

IsEdge(edge, side) ==
    IF Below(side) = {}
    THEN edge = CurveFreqs[IF side = "low" THEN 1 ELSE Len(CurveFreqs)]
    ELSE LET j == IF side = "low"
                  THEN CHOOSE a \in Below(side) : \A b \in Below(side) : b <= a
                  ELSE CHOOSE a \in Below(side) : \A b \in Below(side) : a <= b
         IN  OnTheLine(edge, j, IF side = "low" THEN j + 1 ELSE j - 1)

C17_BandEdges ==
    EdgesFound =>
        IF ~ValidCurve THEN out.result = <<None, None>>
        ELSE /\ out.result[1] # None
             /\ out.result[2] # None
             /\ FLe(CurveFreqs[1], out.result[1])
             /\ FLe(out.result[1], CurveFreqs[CurvePeak])
             /\ FLe(CurveFreqs[CurvePeak], out.result[2])
             /\ FLe(out.result[2], CurveFreqs[Len(CurveFreqs)])
             /\ IsEdge(out.result[1], "low")
             /\ IsEdge(out.result[2], "high")

\* samples given out of order, the peak in the middle: the low edge is
\* interpolated between 20 and 50 Hz, the high edge is the last sample
C17_Witness ==
    /\ EdgesFound
    /\ call.frequencies = <<130, 20, 50>>
    /\ call.values = <<R(83), R(74), R(83)>>
    /\ out.result = <<R(40), R(130)>>

(***************************************************************************)
(* C18.  alignment_summary of the sealed and of the vented solver reports  *)
(* safe_drive_voltage_v = drive_voltage / max(excursion_ratio, 1): the     *)
(* drive voltage itself when the ratio is at most 1, a strictly smaller    *)
(* voltage when the ratio is above 1, never a larger one; and              *)
(* excursion_ratio, excursion_headroom_db and safe_drive_voltage_v are     *)
(* None together, exactly when the driver has no rated Xmax (None or 0)    *)
(* or the peak displacement is 0.  A sealed solver accepts a negative      *)
(* voltage, and scales it towards zero.                                    *)
(***************************************************************************)
Summarised == out # Idle /\ out.op = "alignment_summary"

\* a < b for voltages with a sign
SignedLt(a, b) ==
    IF a[1] = "-dB" THEN (b[1] = "-dB" => FGt(a[2], b[2]))
    ELSE IF a[1] = "zero" THEN b[1] = "dB"
    ELSE b[1] = "dB" /\ FLt(a[2], b[2])

Unrated ==
    \/ call.driver.xmax_mm \in {None, VZero}
    \/ out.summary.max_cone_displacement_m = VZero

NoneTogether ==
    /\ out.summary.excursion_ratio = None
    /\ out.summary.excursion_headroom_db = None
    /\ out.summary.safe_drive_voltage_v = None

SomeTogether ==
    /\ out.summary.excursion_ratio # None
    /\ out.summary.excursion_headroom_db # None
    /\ out.summary.safe_drive_voltage_v # None

SafeDriveScaled ==
    LET ratio == out.summary.excursion_ratio
        safe == out.summary.safe_drive_voltage_v
    IN  /\ FLe(ratio[2], R(0)) => safe = call.drive_voltage
        /\ FGt(ratio[2], R(0)) => SignedLt(safe, call.drive_voltage)
        /\ ~SignedLt(call.drive_voltage, safe)

C18_SafeDriveVoltageAsStated ==
    Summarised =>
        /\ IF Unrated THEN NoneTogether ELSE SomeTogether
        /\ ~Unrated => SafeDriveScaled

\* the statement for the voltages every solver should be limited to
C18_SafeDriveVoltage ==
    (Summarised /\ ~NonPositive(call.drive_voltage)) =>
        /\ IF Unrated THEN NoneTogether ELSE SomeTogether
        /\ ~Unrated => SafeDriveScaled

\* 100 V into the sealed box: 24 dB over the rated excursion at 20 Hz, the
\* safe voltage 24 dB below 100 V
C18_Witness ==
    /\ Summarised
    /\ call.kind = "sealed"
    /\ call.drive_voltage = Level(R(40))
    /\ out.summary.excursion_ratio = Level(R(24))
    /\ out.summary.excursion_headroom_db = R(-24)
    /\ out.summary.safe_drive_voltage_v = Level(R(16))

\* -100 V into the sealed box: the safe voltage is 24 dB nearer to zero,
\* which is above the drive voltage
C18_NegativeVoltageScaledUp ==
    /\ Summarised
    /\ call.drive_voltage = NegLevel(R(40))
    /\ out.summary.safe_drive_voltage_v = NegLevel(R(16))

(***************************************************************************)
(* C19.  fractional_octave_smooth(N) with N > 0 returns a trace on the     *)
(* same frequency axis in the same order; each smoothed SPL value is the   *)
(* mean of a run of samples, taken in the order of frequency, that holds   *)
(* the sample itself and at least min(3, n) samples; so max - min of the   *)
(* smoothed SPL is at most that of the input, and strictly smaller when    *)
(* the input zigzags (consecutive samples differ, rising and falling in    *)
(* turn).  With N <= 0 the result equals the input.                        *)
(***************************************************************************)
SmoothedOnce == out # Idle /\ out.op = "fractional_octave_smooth"

\* a series in the order of the frequencies of the input trace
ByFrequency(series) ==
    [k \in 1..Len(series) |-> series[SortOrder(trace.frequency_hz)[k]]]

Span(series) ==
    FSub(MaxFrom(series, None), MinFrom(series, None))

\* the value is the mean of samples a..b of the sorted input, a run that
\* holds sample k and at least min(3, n) samples
MeanOfRunAround(value, sorted_input, k) ==
    \E a \in 1..k : \E b \in k..Len(sorted_input) :
        /\ b - a + 1 >= (IF Len(sorted_input) < 3 THEN Len(sorted_input) ELSE 3)
        /\ value = FDiv(SumSeq(SubSeq(sorted_input, a, b)), R(b - a + 1))

Zigzag(series) ==
    /\ Len(series) >= 2
    /\ \A k \in 1..(Len(series) - 1) : series[k] # series[k + 1]
    /\ \A k \in 1..(Len(series) - 2) :
          FLt(series[k], series[k + 1]) <=> FGt(series[k + 1], series[k + 2])

C19_SmoothingNarrowsTheSpan ==
    SmoothedOnce =>
        IF FLe(call.fraction, R(0)) THEN out.result = trace
        ELSE LET input == ByFrequency(Val(trace.spl_db))
                 smoothed == ByFrequency(Val(out.result.spl_db))
             IN  /\ out.result.frequency_hz = trace.frequency_hz
                 /\ Len(smoothed) = Len(input)
                 /\ \A k \in 1..Len(input) : MeanOfRunAround(smoothed[k], input, k)
                 /\ input # <<>> => FLe(Span(smoothed), Span(input))
                 /\ Zigzag(input) => FLt(Span(smoothed), Span(input))

\* five samples given from the second on, zigzagging between 79 and 82 dB,
\* smoothed over half an octave to each side: every band holds fewer than
\* three samples, every value is a mean of three, and the span falls from
\* 3 dB to 1 dB
C19_Witness ==
    /\ SmoothedOnce
    /\ call.fraction = R(1)
    /\ trace.frequency_hz = <<25, 40, 50, 80, 20>>
    /\ Val(trace.spl_db) = <<R(79), R(82), R(79), R(82), R(82)>>
    /\ Zigzag(ByFrequency(Val(trace.spl_db)))
    /\ ByFrequency(Val(out.result.spl_db)) = <<R(81), R(81), R(80), R(81), R(81)>>

(***************************************************************************)
(* C20: in every comparison with an SPL channel on both sides a NaN sample *)
(* of the measurement or of the prediction is a NaN sample of the delta    *)
(* series, at the same position, and the delta series has one sample per   *)
(* frequency; RMSE, MAE, bias, standard deviation, median absolute         *)
(* deviation, 95th-percentile absolute error, the highest and the lowest   *)
(* delta and the three band biases equal the same statistic of the series  *)
(* from which the NaN samples (and, for the band biases, their             *)
(* frequencies) were removed; each is None when no non-NaN sample remains. *)
(***************************************************************************)
SplDelta == Val(out.result.delta.spl_delta_db)

NotNaN(series) == {i \in 1..Len(series) : ~IsNaN(series[i])}

Aggregates(frequency, values) ==
    <<_rmse(values), _mae(values), _mean(values), _stddev(values),
      _median_abs_deviation(values), _percentile_abs(values, Q(95, 100)),
      _max_value(values), _min_value(values),
      _band_mean(frequency, values, None, <<45>>),
      _band_mean(frequency, values, <<45>>, <<120>>),
      _band_mean(frequency, values, <<120>>, None)>>

ReportedAggregates ==
    <<out.result.stats.spl_rmse_db, out.result.stats.spl_mae_db,
      out.result.stats.spl_bias_db, out.result.stats.spl_std_dev_db,
      out.result.stats.spl_median_abs_dev_db, out.result.stats.spl_p95_abs_error_db,
      out.result.stats.spl_highest_delta_db, out.result.stats.spl_lowest_delta_db,
      out.result.diagnosis.low_band_bias_db, out.result.diagnosis.mid_band_bias_db,
      out.result.diagnosis.high_band_bias_db>>

C20_NaNExcludedFromAggregates ==
    (Compared /\ ~IsNone(trace.spl_db) /\ ~IsNone(out.prediction.spl_db))
        => LET kept == NotNaN(SplDelta)
           IN  /\ ~IsNone(out.result.delta.spl_delta_db)
               /\ Len(SplDelta) = Len(trace.frequency_hz)
               /\ \A i \in 1..Len(SplDelta) :
                     (IsNaN(Val(trace.spl_db)[i]) \/ IsNaN(Val(PredictedSpl)[i]))
                        => IsNaN(SplDelta[i])
               /\ ReportedAggregates =
                     Aggregates(Restricted(trace.frequency_hz, kept),
                                Some(Restricted(SplDelta, kept)))
               /\ kept = {}
                     => \A k \in 1..Len(ReportedAggregates) :
                           ReportedAggregates[k] = None

\* a measurement 80, NaN, 83 dB at 20, 50, 130 Hz against a prediction 0.6 dB
\* below it: the delta is 0.6, NaN, 0.6, the bias is 0.6 and not 0.4, the
\* mid band has no sample
C20_Witness ==
    /\ Compared
    /\ trace.frequency_hz = <<20, 50, 130>>
    /\ trace.spl_db = Some(<<R(80), NaN, R(83)>>)
    /\ out.prediction = OffsetBy(trace, Q(3, 5))
    /\ SplDelta = <<Q(3, 5), NaN, Q(3, 5)>>
    /\ out.result.stats.spl_bias_db = Q(3, 5)
    /\ out.result.stats.spl_rmse_db = Q(3, 5)
    /\ out.result.diagnosis.mid_band_bias_db = None
    /\ out.result.diagnosis.low_band_bias_db = Q(3, 5)

\* a measurement whose every SPL sample is NaN: every aggregate is None
C20_WitnessAllNaN ==
    /\ Compared
    /\ trace.frequency_hz = <<20, 50>>
    /\ trace.spl_db = Some(<<NaN, NaN>>)
    /\ ~IsNone(out.prediction.spl_db)
    /\ \A k \in 1..Len(ReportedAggregates) : ReportedAggregates[k] = None

(***************************************************************************)
(* C21: in every comparison with an SPL channel on both sides Pearson r    *)
(* and R^2 are None when fewer than two sample pairs are free of NaN or    *)
(* when the measurement is constant over the valid pairs, r is None as     *)
(* well when the prediction is constant over them, and the SPL standard    *)
(* deviation is None when a single delta sample is valid; no such          *)
(* comparison raises.                                                      *)
(***************************************************************************)
ValidPairIndices ==
    {i \in 1..Len(trace.frequency_hz) :
        ~IsNaN(Val(trace.spl_db)[i]) /\ ~IsNaN(Val(PredictedSpl)[i])}

ConstantOn(series, S) == \A i, j \in S : series[i] = series[j]

SplOnBothSides == Compared /\ ~IsNone(trace.spl_db) /\ ~IsNone(out.prediction.spl_db)

\* the part about the correlation figures, with its converse: they are
\* numbers in every other case
C21_DegenerateCorrelation ==
    SplOnBothSides
        => LET few == Cardinality(ValidPairIndices) < 2
               flat_measurement == ConstantOn(Val(trace.spl_db), ValidPairIndices)
               flat_prediction == ConstantOn(Val(PredictedSpl), ValidPairIndices)
           IN  /\ out.result.stats.spl_pearson_r = None
                     <=> (few \/ flat_measurement \/ flat_prediction)
               /\ out.result.stats.spl_r_squared = None
                     <=> (few \/ flat_measurement)

SingleValidDelta == SplOnBothSides /\ Cardinality(NotNaN(SplDelta)) = 1

C21_DegenerateStatisticsAsStated ==
    /\ C21_DegenerateCorrelation
    /\ SingleValidDelta => out.result.stats.spl_std_dev_db = None

\* what the comparison reports for a single valid sample: a deviation of 0
C21_SingleSampleDeviationIsZero ==
    SingleValidDelta => out.result.stats.spl_std_dev_db = R(0)

\* a one-sample measurement compared with a prediction 0.6 dB below it
C21_SingleSample ==
    /\ SingleValidDelta
    /\ trace.frequency_hz = <<50>>
    /\ trace.spl_db = Some(<<R(83)>>)
    /\ out.prediction = OffsetBy(trace, Q(3, 5))
    /\ out.result.stats.spl_pearson_r = None
    /\ out.result.stats.spl_std_dev_db = R(0)

(***************************************************************************)
(* C22: a channel that is None in a trace is None in the trace returned by *)
(* resample, bandpass and fractional_octave_smooth, and a channel that is  *)
(* present stays present; a comparison returns a None delta and None       *)
(* statistics for every channel absent from the measurement or from the    *)
(* prediction, and a delta of one sample per frequency for every channel   *)
(* present in both: SPL, phase, impedance and THD.                         *)
(***************************************************************************)
Transformed ==
    \/ out.op \in {"resample", "bandpass"} /\ out.result.raised = ""
    \/ out.op = "fractional_octave_smooth"

TransformedTrace ==
    IF out.op = "fractional_octave_smooth" THEN out.result ELSE out.result.value

AbsenceKept ==
    Transformed => \A ch \in Channels : IsNone(TransformedTrace[ch]) <=> IsNone(trace[ch])

DeltaField(ch) ==
    CASE ch = "spl_db" -> "spl_delta_db"
      [] ch = "phase_deg" -> "phase_delta_deg"
      [] ch = "impedance_ohm" -> "impedance_delta_ohm"
      [] ch = "thd_percent" -> "thd_delta_percent"

StatFields(ch) ==
    CASE ch = "spl_db" -> {"spl_rmse_db", "spl_mae_db", "spl_bias_db", "spl_median_abs_dev_db", "spl_std_dev_db", "spl_pearson_r", "spl_r_squared", "spl_p95_abs_error_db", "spl_highest_delta_db", "spl_lowest_delta_db", "max_spl_delta_db"}
      [] ch = "phase_deg" -> {"phase_rmse_deg"}
      [] ch = "impedance_ohm" -> {"impedance_mag_rmse_ohm"}
      [] ch = "thd_percent" -> {}

OnBothSides(ch) == ~IsNone(trace[ch]) /\ ~IsNone(out.prediction[ch])

DeltaFollowsChannel(ch) ==
    IF OnBothSides(ch)
    THEN /\ ~IsNone(out.result.delta[DeltaField(ch)])
         /\ Len(Val(out.result.delta[DeltaField(ch)])) = Len(trace.frequency_hz)
    ELSE /\ IsNone(out.result.delta[DeltaField(ch)])
         /\ \A s \in StatFields(ch) : out.result.stats[s] = None

C22_ChannelAbsencePropagatesAsStated ==
    /\ AbsenceKept
    /\ Compared => \A ch \in Channels : DeltaFollowsChannel(ch)

\* the same with the THD channel set apart: its delta is None in every
\* comparison
C22_ChannelAbsencePropagates ==
    /\ AbsenceKept
    /\ Compared => /\ \A ch \in Channels \ {"thd_percent"} : DeltaFollowsChannel(ch)
                   /\ IsNone(out.result.delta.thd_delta_percent)

\* a measurement and a prediction that both carry THD, compared
C22_ThdOnBothSides ==
    /\ Compared
    /\ OnBothSides("thd_percent")
    /\ OnBothSides("spl_db")
    /\ ~OnBothSides("phase_deg")
    /\ IsNone(out.result.delta.thd_delta_percent)
    /\ ~IsNone(out.result.delta.spl_delta_db)
    /\ IsNone(out.result.delta.phase_delta_deg)

(***************************************************************************)
(* C23: in every comparison the diagnosis has leakage_hint 'lower_q' when  *)
(* both the low-band and the mid-band bias are available and low minus mid *)
(* is below -1.5 dB, 'raise_q' when both are available and low minus mid   *)
(* is above +1.5 dB, and None in every other case, a difference of exactly *)
(* 1.5 dB included.                                                        *)
(***************************************************************************)
LowMinusMid ==
    FSub(out.result.diagnosis.low_band_bias_db, out.result.diagnosis.mid_band_bias_db)

BothBandsAvailable ==
    /\ out.result.diagnosis.low_band_bias_db # None
    /\ out.result.diagnosis.mid_band_bias_db # None

C23_LeakageHintAsStated ==
    Compared
        => out.result.diagnosis.leakage_hint =
              (IF BothBandsAvailable /\ FLt(LowMinusMid, Q(-3, 2)) THEN "lower_q"
               ELSE IF BothBandsAvailable /\ FGt(LowMinusMid, Q(3, 2)) THEN "raise_q"
               ELSE "None")

\* what the diagnosis does: a difference of exactly 1.5 dB sets the hint
C23_LeakageHintFromOnePointFive ==
    Compared
        => out.result.diagnosis.leakage_hint =
              (IF BothBandsAvailable /\ FLe(LowMinusMid, Q(-3, 2)) THEN "lower_q"
               ELSE IF BothBandsAvailable /\ FGe(LowMinusMid, Q(3, 2)) THEN "raise_q"
               ELSE "None")

\* 83, 80 dB at 20 Hz and 83 dB at 50 Hz against a curve of 80 and 83 dB:
\* low-band bias 1.5, mid-band bias 0, hint 'raise_q'
C23_ExactlyOnePointFive ==
    /\ Compared
    /\ trace.frequency_hz = <<20, 20, 50>>
    /\ trace.spl_db = Some(<<R(83), R(80), R(83)>>)
    /\ out.prediction \in SolverCurves
    /\ out.result.diagnosis.low_band_bias_db = Q(3, 2)
    /\ out.result.diagnosis.mid_band_bias_db = R(0)
    /\ out.result.diagnosis.leakage_hint = "raise_q"

(***************************************************************************)
(* C24: in every diagnosis the notes hold a tuning note if and only if     *)
(* |tuning_shift_hz| > 0.8 Hz; a note for the low (< 45 Hz), the mid       *)
(* ([45, 120) Hz) and the high (>= 120 Hz) band if and only if the mean    *)
(* delta of the samples of that band exists and is above 1.0 dB in         *)
(* magnitude; and a port-length note if and only if a recommended port     *)
(* length scale exists and differs from 1 by more than 5%, whatever the    *)
(* tuning shift.                                                           *)
(***************************************************************************)
Diagnosed == out.op = "diagnose"

Exceeds(value, threshold) == value # None /\ FGt(FAbs(value), threshold)

\* the samples whose frequency, in Hz, is at least low and below high
InHzBand(low, high) ==
    {i \in 1..Len(call.frequency) :
        /\ low * call.unit <= call.frequency[i]
        /\ call.frequency[i] < high * call.unit}

BandBiasIs(bias, low, high) ==
    bias = MeanOfValid(Restricted(Val(out.spl_delta), InHzBand(low, high)))

TuningAndBandNotes ==
    /\ BandBiasIs(out.result.diagnosis.low_band_bias_db, 0, 45)
    /\ BandBiasIs(out.result.diagnosis.mid_band_bias_db, 45, 120)
    /\ BandBiasIs(out.result.diagnosis.high_band_bias_db, 120, 100000)
    /\ HasNote("tuning") <=> Exceeds(out.result.diagnosis.tuning_shift_hz, Q(4, 5))
    /\ HasNote("low") <=> Exceeds(out.result.diagnosis.low_band_bias_db, R(1))
    /\ HasNote("mid") <=> Exceeds(out.result.diagnosis.mid_band_bias_db, R(1))
    /\ HasNote("high") <=> Exceeds(out.result.diagnosis.high_band_bias_db, R(1))

ScaleOffByFivePercent ==
    /\ out.result.diagnosis.recommended_port_length_scale # None
    /\ FGt(FAbs(FSub(out.result.diagnosis.recommended_port_length_scale, R(1))), Q(1, 20))

C24_NotesAsStated ==
    Diagnosed => /\ TuningAndBandNotes
                 /\ HasNote("port_length") <=> ScaleOffByFivePercent

\* what the diagnosis does: the port-length note needs the tuning note
C24_PortNoteNeedsTuningNote ==
    Diagnosed => /\ TuningAndBandNotes
                 /\ HasNote("port_length") <=> (HasNote("tuning") /\ ScaleOffByFivePercent)

\* the measured peak at 20.0 Hz, the predicted peak at 20.6 Hz, a port of
\* 0.24 m: shift -0.6 Hz, scale 1.0609, neither a tuning nor a port note
C24_SmallShiftLargeScale ==
    /\ Diagnosed
    /\ call.frequency = <<200, 206, 500>>
    /\ call.measurement_spl = <<R(83), R(80), R(80)>>
    /\ call.predicted_spl = <<R(80), R(83), R(80)>>
    /\ out.result.diagnosis.tuning_shift_hz = Q(-3, 5)
    /\ out.result.diagnosis.recommended_port_length_scale = Q(10609, 10000)
    /\ ~HasNote("tuning")
    /\ ~HasNote("port_length")
    /\ out.result.diagnosis.notes = <<>>

(***************************************************************************)
(* C25, as stated: for any prior, derive_calibration_update turns the hint *)
(* 'lower_q' into a leakage_q_scale whose mean is greater than the prior   *)
(* mean and 'raise_q' into one whose mean is smaller, each with a credible *)
(* interval lower < upper; the overrides derived from the update, applied  *)
(* to a box, give a leakage_q above the box's for 'lower_q' and below it   *)
(* for 'raise_q'.                                                          *)
(***************************************************************************)
Hinted(hint) == call.fn = "derive_calibration_update" /\ call.diagnosis.leakage_hint = hint

DerivedApplied == out.op = "apply_derived_overrides_to_box"

LeakageMovesWithHint ==
    /\ (Derived /\ Hinted("lower_q"))
          => /\ out.result.leakage_q_scale # None
             /\ FGt(out.result.leakage_q_scale.mean, GivenPrior.leakage_q_scale.mean)
             /\ IntervalOpen(out.result.leakage_q_scale)
    /\ (Derived /\ Hinted("raise_q"))
          => /\ out.result.leakage_q_scale # None
             /\ FLt(out.result.leakage_q_scale.mean, GivenPrior.leakage_q_scale.mean)
             /\ IntervalOpen(out.result.leakage_q_scale)
    /\ (DerivedApplied /\ Hinted("lower_q"))
          => FGt(out.result.leakage_q, out.given.leakage_q)
    /\ (DerivedApplied /\ Hinted("raise_q"))
          => FLt(out.result.leakage_q, out.given.leakage_q)

C25_LeakageHintMovesScaleAsStated == LeakageMovesWithHint

(***************************************************************************)
(* C25, amended: the same for a prior leakage_q_scale of mean 1.0 and      *)
(* variance of at least 0.01, the default prior among them, and a box whose *)
(* leakage Q is positive and finite and stays a float of the range when    *)
(* multiplied by the scale.                                                *)
(***************************************************************************)
PriorAroundOne ==
    /\ call.fn = "derive_calibration_update"
    /\ GivenPrior.leakage_q_scale.mean = R(1)
    /\ FGe(GivenPrior.leakage_q_scale.variance, Q(1, 100))

\* the box's leakage Q times the posterior scale is a float of the range
\* and differs from the leakage Q
ScaledLeakageRepresentable ==
    (DerivedApplied /\ out.calibration.leakage_q_scale # None)
        => LET scaled == FMul(out.given.leakage_q, out.calibration.leakage_q_scale.mean)
           IN  PositiveFinite(out.given.leakage_q) /\ FloatRange(scaled) = scaled

C25_LeakageHintMovesScale ==
    (PriorAroundOne /\ ScaledLeakageRepresentable) => LeakageMovesWithHint

\* the default prior and the hint 'lower_q': the overrides derived for the
\* sealed box of leakage Q 15 are applied and give a higher leakage Q
C25_Witness ==
    /\ DerivedApplied
    /\ Hinted("lower_q")
    /\ call.prior = None
    /\ out.given = BoxDesign(R(55), R(15))
    /\ FGt(out.calibration.leakage_q_scale.mean, R(1))
    /\ FLt(out.calibration.leakage_q_scale.mean, Q(115, 100))
    /\ out.overrides.leakage_q = FMul(R(15), out.calibration.leakage_q_scale.mean)
    /\ out.result.leakage_q = out.overrides.leakage_q
    /\ FGt(out.result.leakage_q, R(15))

\* the default prior and the hint 'raise_q', for the vented box
C25_WitnessRaise ==
    /\ DerivedApplied
    /\ Hinted("raise_q")
    /\ call.prior = None
    /\ out.given.kind = "VentedBoxDesign"
    /\ FLt(out.calibration.leakage_q_scale.mean, R(1))
    /\ FLt(out.result.leakage_q, R(10))

(***************************************************************************)
(* C26, as stated: in an iteration every perturbed field (driver Fs, Qts,  *)
(* Vas, Re, Bl, Mms, Sd, Le; box volume; port diameter and length) with    *)
(* nominal value v and tolerance p lies within [v*(1-p), v*(1+p)] and is   *)
(* strictly positive (Le >= 0); Xmax, leakage Q, port count, flare factor  *)
(* and port loss Q are those of the nominal objects; the nominal driver    *)
(* and box are as they were given.                                         *)
(***************************************************************************)
Perturbed == out.op = "vary"

\* nominal value, tolerance, perturbed value and floor of every field that
\* is perturbed and present
PerturbedFields ==
    LET t == call.tolerances
        d == call.driver
        port == call.design.kind = "VentedBoxDesign"
    IN  {<<d.fs_hz, t.driver_fs_pct, out.driver.fs_hz, Q(1, 1000000000)>>,
         <<d.qts, t.driver_qts_pct, out.driver.qts, Q(1, 1000)>>,
         <<d.re_ohm, t.driver_re_pct, out.driver.re_ohm, Q(1, 1000)>>,
         <<d.bl_t_m, t.driver_bl_pct, out.driver.bl_t_m, Q(1, 1000)>>,
         <<d.mms_kg, t.driver_mms_pct, out.driver.mms_kg, Q(1, 1000000)>>,
         <<d.sd_m2, t.driver_sd_pct, out.driver.sd_m2, Q(1, 1000000)>>,
         <<call.design.volume_l, t.box_volume_pct, out.box.volume_l, Q(1, 1000)>>}
        \cup (IF d.vas_l = None THEN {}
              ELSE {<<d.vas_l, t.driver_vas_pct, out.driver.vas_l, Q(1, 1000000)>>})
        \cup (IF port
              THEN {<<call.design.port.diameter_m, t.port_diameter_pct,
                      out.box.port.diameter_m, Q(1, 10000)>>,
                    <<call.design.port.length_m, t.port_length_pct,
                      out.box.port.length_m, Q(1, 10000)>>}
              ELSE {})

\* x <= 1/F and 1/F <= x for a floor <<1, F>>, in integers that stay small
UpToFloor(x, floor_value) == x[1] <= x[2] \div floor_value[2]

FromFloor(x, floor_value) ==
    x[1] > 0 /\ x[1] >= (x[2] + floor_value[2] - 1) \div floor_value[2]

\* v*(1-p) <= x <= v*(1+p), x being a value of the field or its floor
InBandOf(v, p, x, floor_value) ==
    LET low == FMul(v, FSub(R(1), p))
        high == FMul(v, FAdd(R(1), p))
    IN  IF x = floor_value /\ floor_value # R(0)
        THEN UpToFloor(low, floor_value) /\ FromFloor(high, floor_value)
        ELSE FGe(x, low) /\ FLe(x, high)

OthersUntouched ==
    /\ out.driver.xmax_mm = call.driver.xmax_mm
    /\ (call.driver.vas_l = None) => (out.driver.vas_l = None)
    /\ out.box.kind = call.design.kind
    /\ out.box.leakage_q = call.design.leakage_q
    /\ (call.design.kind = "VentedBoxDesign")
          => /\ out.box.port.count = call.design.port.count
             /\ out.box.port.flare_factor = call.design.port.flare_factor
             /\ out.box.port.loss_q = call.design.port.loss_q
    /\ call.driver = out.given_driver
    /\ call.design = out.given_box

C26_WitnessFloor ==
    /\ Perturbed
    /\ call.driver = ReferenceDriver
    /\ call.tolerances.driver_fs_pct = R(2)
    /\ out.driver.fs_hz = Q(1, 1000000000)

\* a nominal Re of 0.0005 ohm under the default tolerances: Re is 0.001 ohm
C26_BelowTheFloor ==
    /\ Perturbed
    /\ call.driver.re_ohm = Q(1, 2000)
    /\ call.tolerances = DEFAULT_TOLERANCES
    /\ out.driver.re_ohm = Q(1, 1000)

(***************************************************************************)
(* C27, as stated: the mapping to_dict returns contains a key for every    *)
(* field of the entity, a field that is None being present with the value  *)
(* None; the complex impedance is written as impedance_real and            *)
(* impedance_imag, two sequences of equal length.                          *)
(***************************************************************************)
Serialised == out.op = "to_dict"

\* the keys of the payload of an entity, one per field; the impedance has two
PayloadKeys(of) ==
    IF of = "MeasurementTrace"
    THEN {"frequency_hz", "spl_db", "phase_deg", "impedance_real", "impedance_imag",
          "thd_percent"}
    ELSE IF of = "MeasurementDelta"
    THEN {"frequency_hz", "spl_delta_db", "phase_delta_deg", "impedance_delta_ohm",
          "thd_delta_percent"}
    ELSE {"mean", "variance", "prior_mean", "prior_variance", "observation",
          "observation_variance", "update_weight", "credible_interval"}

\* the field of the entity a key is written from
FieldOf(key) ==
    IF key \in {"impedance_real", "impedance_imag"} THEN "impedance_ohm" ELSE key

Absent(key) == IsNone(out.entity[FieldOf(key)])

ImpedanceSplit ==
    ("impedance_real" \in DOMAIN out.payload /\ out.payload["impedance_real"] # None)
        => /\ "impedance_imag" \in DOMAIN out.payload
           /\ Len(out.payload["impedance_real"]) = Len(out.payload["impedance_imag"])
           /\ Len(out.payload["impedance_real"]) = Len(out.entity.frequency_hz)

C27_EveryFieldHasAKeyAsStated ==
    Serialised
        => /\ \A key \in PayloadKeys(out.of) :
                 /\ key \in DOMAIN out.payload
                 /\ Absent(key) => out.payload[key] = None
           /\ ImpedanceSplit

\* what holds instead: a key is written exactly for the fields that are not
\* None, and never with the value None
C27_KeysOfPresentFields ==
    Serialised
        => /\ \A key \in PayloadKeys(out.of) :
                 (key \in DOMAIN out.payload) <=> ~Absent(key)
           /\ \A key \in DOMAIN out.payload : out.payload[key] # None
           /\ ImpedanceSplit

\* a trace with SPL and impedance only: four keys, none for phase and THD
C27_AbsentFieldOmitted ==
    /\ Serialised
    /\ out.of = "MeasurementTrace"
    /\ Len(out.entity.frequency_hz) = 3
    /\ DOMAIN out.payload = {"frequency_hz", "spl_db", "impedance_real", "impedance_imag"}
    /\ Len(out.payload["impedance_imag"]) = 3

\* the delta of a comparison of two full traces has no key for the THD
C27_DeltaWithoutThd ==
    /\ Serialised
    /\ out.of = "MeasurementDelta"
    /\ ~IsNone(out.entity.spl_delta_db)
    /\ ~IsNone(out.entity.impedance_delta_ohm)
    /\ "thd_delta_percent" \notin DOMAIN out.payload

(***************************************************************************)
(* C28: for a raw port velocity v > 0 the snapshot reports v and the ratio *)
(* 1 when v is at or below the threshold, and a velocity between the       *)
(* threshold and v with the ratio velocity / v above it; the ratio is in   *)
(* (0, 1], below 1 exactly when v exceeds the threshold; the reported      *)
(* velocity never exceeds v and does not decrease when v grows.            *)
(***************************************************************************)
Snapshots == {out.snapshots[i] : i \in 1..Len(out.snapshots)}

Flowing == {s \in Snapshots : FGt(s.raw_velocity, R(0))}

CompressionLaw(s) ==
    IF FLe(s.raw_velocity, _port_threshold)
    THEN s.port_velocity_ms = s.raw_velocity /\ s.port_compression_ratio = R(1)
    ELSE /\ FSub(s.port_velocity_ms, _port_threshold)
               = FMul(PortCompressionSlope, FSub(s.raw_velocity, _port_threshold))
         /\ FMul(s.port_compression_ratio, s.raw_velocity) = s.port_velocity_ms

Fetched == out.op = "store" /\ out.fetched # None

StatusRules(record) ==
    /\ record.status \in VALID_STATUSES
    /\ ~IsNone(record.result) => record.status = "succeeded"
    /\ ~IsNone(record.error) => record.status = "failed"

C29_LastWriteReadBackAsStated ==
    Fetched
        => IF out.fetched.written = None THEN out.fetched.record = None
           ELSE /\ out.fetched.record # None
                /\ out.fetched.record.id = out.fetched.run_id
                /\ out.fetched.record.status = out.fetched.written[1]
                /\ out.fetched.record.result = out.fetched.written[2]
                /\ out.fetched.record.error = out.fetched.written[3]
                /\ StatusRules(out.fetched.record)

\* what holds instead: the same, an empty error message being read back as
\* None
C29_LastWriteReadBack ==
    Fetched
        => IF out.fetched.written = None THEN out.fetched.record = None
           ELSE /\ out.fetched.record # None
                /\ out.fetched.record.id = out.fetched.run_id
                /\ out.fetched.record.status = out.fetched.written[1]
                /\ out.fetched.record.result = out.fetched.written[2]
                /\ out.fetched.record.error
                      = IF out.fetched.written[3] = Some("") THEN None
                        ELSE out.fetched.written[3]
                /\ StatusRules(out.fetched.record)

\* mark_failed(id, "") was the last operation: the run is read back as
\* failed without an error
C29_EmptyErrorLost ==
    /\ Fetched
    /\ out.fetched.written = <<"failed", None, Some("")>>
    /\ out.fetched.record.status = "failed"
    /\ out.fetched.record.error = None

\* complete_run was the last operation while the other caller waits for the
\* lock with mark_failed(id, "boom")
C29_ReadBetweenWrites ==
    /\ Fetched
    /\ out.fetched.record # None
    /\ out.fetched.record.status = "succeeded"
    /\ out.fetched.record.result = Some({<<"loss", 0>>})
    /\ \E c \in Callers : call[c].pc = "waiting" /\ call[c].todo.fn = "mark_failed"

(***************************************************************************)
(* C30: every run that was started reaches 'succeeded' or 'failed'; its    *)
(* task moves it from 'queued' to 'running' first; when the task has       *)
(* returned the run is 'succeeded' with the result of the builder, or      *)
(* 'failed' with the message of the exception, and not 'queued' or         *)
(* 'running'; a run that is 'succeeded' or 'failed' stays so.              *)
(***************************************************************************)
Terminal == {"succeeded", "failed"}

Started(id) == out.op = "gateway" /\ id \in DOMAIN out.rows

Ended(id) == Started(id) /\ out.rows[id].status \in Terminal

TaskOver(id) == out.op = "gateway" /\ call[id].pc \in {"returned", "raised"}

EndsTerminal(id) ==
    TaskOver(id)
        => /\ Ended(id)
           /\ IF IsNone(call[id].exc)
              THEN out.rows[id] = [status |-> "succeeded",
                                   result |-> Some(json_dumps(Val(call[id].result))),
                                   error |-> None]
              ELSE out.rows[id] = [status |-> "failed", result |-> None,
                                   error |-> call[id].exc]

StatusStep(id) ==
    Started(id)
        => /\ Started(id)'
           /\ (out.rows[id].status \in Terminal) => (out.rows[id].status \in Terminal)'
           /\ (out.rows[id].status = "queued")
                 => (out.rows[id].status \in {"queued", "running"})'

C30_RunsReachTerminalStatus ==
    /\ [](\A id \in TaskRunIds : EndsTerminal(id))
    /\ [][\A id \in TaskRunIds : StatusStep(id)]_vars
    /\ \A id \in TaskRunIds : Started(id) ~> Ended(id)

\* run a has succeeded with its result stored while run b has failed with
\* the message of its exception stored
C30_Witness ==
    /\ TaskOver("a")
    /\ TaskOver("b")
    /\ out.rows["a"].status = "succeeded"
    /\ out.rows["a"].result = Some("{}")
    /\ out.rows["b"].status = "failed"
    /\ out.rows["b"].error = Some("boom")

====
